---------------------------- MODULE Spec2Model ----------------------------
(***************************************************************************)
(* Model of the two synchronisation functions of azure-digital-twin-cdf-   *)
(* sync:                                                                   *)
(*   - ADT2CDF (src/Functions/ADT2CDF/ADT2CDFSync/handler.py), the event   *)
(*     driven direction: Twin Graph (ADT) events are applied to the Asset  *)
(*     Graph (CDF);                                                        *)
(*   - CDF2ADT (src/Functions/CDF2ADT/CDF2ADTSync/handler.py), the timer   *)
(*     driven direction: the asset hierarchy of CDF is reconciled into the *)
(*     Twin Graph.                                                         *)
(*                                                                         *)
(* Strings that the code transforms character by character (external ids,  *)
(* twin ids, metadata keys) are sequences of one-character strings.        *)
(* Python dicts are sequences of [k, v] entries with pairwise distinct     *)
(* keys (insertion order kept, equality order-independent).  Stores are    *)
(* functions whose DOMAIN is the set of ids that exist.                    *)
(***************************************************************************)
EXTENDS Naturals, Integers, Sequences, FiniteSets, TLC

VARIABLES
    \* ---- Diff / Apply (get_update_patches, fetch_changes_to_CDF_record)
    diff_pc,          \* "idle" | "start" | "diffed" | "applied"
    diff_resource,    \* the CDF resource handed to get_update_patches (desired state B)
    diff_twin,        \* the digital twin dict handed to get_update_patches (current state)
    diff_patches,     \* the list returned by get_update_patches
    apply_record,     \* the CDF record handed to fetch_changes_to_CDF_record (state A)
    apply_result,     \* what fetch_changes_to_CDF_record returned
    diff_twin_after,  \* the dict diff_twin as get_update_patches left it
    apply_record_after, \* the object apply_record as fetch_changes_to_CDF_record left it
    \* ---- query_adt_batches
    q_pc,             \* "idle" | "loop" | "done"
    q_predicates,     \* the id list to be divided into batches
    q_n,              \* the batch size
    q_i,              \* start index of the next batch (Python range(0, len, n))
    q_batches,        \* the batches for which a query has been issued, in order
    q_res_adt,        \* the concatenated rows
    q_rels,           \* the relationships held by the queried Twin Graph
    \* ---- the Asset Graph (CDF)
    cdf_assets,         \* external id -> asset
    cdf_timeseries,     \* external id -> time series
    cdf_datapoints,     \* external id of a time series -> its latest datapoint
    cdf_relationships,  \* external id -> relationship
    cdf_labels,         \* the external ids of the label definitions
    cdf_next_id,        \* the next internal id the store assigns
    cdf_lag,            \* the lookups that still return a time series after its delete
    \* ---- the Twin Graph (ADT)
    adt_twins,          \* twin id -> digital twin
    adt_rels,           \* the relationships
    \* ---- ADT2CDF handle
    inc_pc,             \* "idle" | "start" | "loop" | "raised" | "returned" (handle
                        \* returned eventIndex) | "returned_none" (a bare return)
    pool,               \* the kind of events the batch is made of
    events_len,         \* len(events)
    metadata_len,       \* len(event.metadata["PropertiesArray"])
    eventIndex,
    event,              \* the representation of the event processed last
    redelivered,        \* the event processed last was the one processed before it
    calls,              \* the mutating CDF calls issued for the event processed last
    result,             \* the handler's result for it
    before,             \* the Asset Graph as it was before the event processed last
    \* ---- CDF2ADT handle
    sync_pc,            \* where the pass is: "idle" | "start" | "read" | ... | "done"
    func_runs,          \* func_runs['last_executions'] of the blob file
    clock,              \* the wall clock, in seconds
    sync_ts,            \* what get_last_exec_TS returned (0 for None)
    asset_list,         \* what retrieve_subtree returned
    date_now,           \* datetime.utcnow() as the pass sampled it (0 before)
    read_clock,         \* the wall clock when retrieve_subtree was called
    pass_no,            \* the passes started so far
    pass_twins,         \* the Twin Graph when the pass started: the twins
    pass_rels,          \* and the relationships
    pass_runs,          \* func_runs when the pass started
    pass_steps,         \* the steps the pass has taken, in order
    pass_calls,         \* the calls the pass has made on the Twin Graph, in order
    \* ---- CDF2ADT handle, several invocations at a time
    ov_pass,            \* invocation -> its position and its local variables
    ov_uploads          \* the uploads of the blob file so far, in order

diffVars == <<diff_pc, diff_resource, diff_twin, diff_patches, apply_record, apply_result,
              diff_twin_after, apply_record_after>>
queryVars == <<q_pc, q_predicates, q_n, q_i, q_batches, q_res_adt, q_rels>>
cdfVars == <<cdf_assets, cdf_timeseries, cdf_datapoints, cdf_relationships, cdf_labels,
             cdf_next_id, cdf_lag>>
adtVars == <<adt_twins, adt_rels>>
incVars == <<inc_pc, pool, events_len, metadata_len, eventIndex, event, redelivered, calls,
             result, before>>
syncVars == <<sync_pc, func_runs, clock, sync_ts, asset_list, date_now, read_clock, pass_no,
              pass_twins, pass_rels, pass_runs, pass_steps, pass_calls>>
overlapVars == <<ov_pass, ov_uploads>>

-----------------------------------------------------------------------------
(* Each specification runs one part of the program; the variables of the   *)
(* other parts stay at these values.                                       *)

NoResult == [has_change |-> FALSE, record |-> <<>>, error |-> "none"]

DiffIdle ==
    /\ diff_pc = "idle" /\ diff_resource = <<>> /\ diff_twin = <<>>
    /\ diff_patches = <<>> /\ apply_record = <<>> /\ apply_result = NoResult
    /\ diff_twin_after = <<>> /\ apply_record_after = <<>>

QueryIdle ==
    /\ q_pc = "idle" /\ q_predicates = <<>> /\ q_n = 0 /\ q_i = 0
    /\ q_batches = <<>> /\ q_res_adt = <<>> /\ q_rels = {}

\* no event processed yet
NoEvent == [kind |-> "none", op |-> "none"]

CdfIdle ==
    /\ cdf_assets = <<>>
    /\ cdf_timeseries = <<>>
    /\ cdf_datapoints = <<>>
    /\ cdf_relationships = <<>>
    /\ cdf_labels = {}
    /\ cdf_next_id = 1
    /\ cdf_lag = 0

AdtIdle ==
    /\ adt_twins = <<>>
    /\ adt_rels = {}

IncIdle ==
    /\ inc_pc = "idle"
    /\ pool = "none"
    /\ events_len = 0
    /\ metadata_len = 0
    /\ eventIndex = 0
    /\ event = NoEvent
    /\ redelivered = FALSE
    /\ calls = <<>>
    /\ result = FALSE
    /\ before = <<>>

OverlapIdle ==
    /\ ov_pass = <<>>
    /\ ov_uploads = <<>>

SyncIdle ==
    /\ OverlapIdle
    /\ sync_pc = "idle"
    /\ func_runs = <<>>
    /\ clock = 0
    /\ sync_ts = 0
    /\ asset_list = <<>>
    /\ date_now = 0
    /\ read_clock = 0
    /\ pass_no = 0
    /\ pass_twins = <<>>
    /\ pass_rels = {}
    /\ pass_runs = <<>>
    /\ pass_steps = <<>>
    /\ pass_calls = <<>>

\* what the actions of one part leave alone
notDiffVars == <<queryVars, cdfVars, adtVars, incVars, syncVars, overlapVars>>
notQueryVars == <<diffVars, cdfVars, adtVars, incVars, syncVars, overlapVars>>
notIncVars == <<diffVars, queryVars, syncVars, overlapVars>>
notSyncVars == <<diffVars, queryVars, incVars, overlapVars>>

-----------------------------------------------------------------------------
(* Bounds of the model *)

\* largest number of entries of a metadata dict drawn as an input
MaxMeta == 2
\* longest id list handed to query_adt_batches
MaxPredicates == 4
\* largest batch size tried for query_adt_batches
MaxBatchSize == 3

-----------------------------------------------------------------------------
(* Python values *)

\* Python None in a string-typed field
None == "<None>"

\* x is None, for a field that holds None or a dict
IsNone(x) == ToString(x) = ToString(None)

\* truthiness of an optional string
Truthy(s) == s # None /\ s # ""

\* str() of an internal id
str(n) == <<"0", "1", "2", "3", "4", "5", "6", "7", "8", "9">>[n + 1]

\* str.replace(c, r) on a sequence of characters; r is a sequence
RECURSIVE replace(_, _, _)
replace(s, c, r) ==
    IF s = <<>> THEN <<>>
    ELSE (IF Head(s) = c THEN r ELSE <<Head(s)>>) \o replace(Tail(s), c, r)

\* dict helpers
DictKeys(d) == { d[i].k : i \in 1..Len(d) }
DictHas(d, k) == \E i \in 1..Len(d) : d[i].k = k
DictGet(d, k) == d[CHOOSE i \in 1..Len(d) : d[i].k = k].v
DictSet(d, k, v) ==
    IF DictHas(d, k)
    THEN [i \in 1..Len(d) |-> IF d[i].k = k THEN [k |-> k, v |-> v] ELSE d[i]]
    ELSE Append(d, [k |-> k, v |-> v])
DictDel(d, k) == SelectSeq(d, LAMBDA e : e.k # k)
DictItems(d) == { <<d[i].k, d[i].v>> : i \in 1..Len(d) }
DictEq(d1, d2) == DictItems(d1) = DictItems(d2)
IsDict(d) == \A i, j \in 1..Len(d) : d[i].k = d[j].k => i = j

-----------------------------------------------------------------------------
(* Alphabet translation *)

\* CDF2ADT convert_ext_id
convert_ext_id(external_id) ==
    IF external_id # <<>>
    THEN replace(replace(replace(external_id, ":", <<"*">>), " ", <<"_">>),
                 "&", <<"A", "N", "D">>)
    ELSE external_id

\* the key substitution shared by both convert_metadata functions
convert_key(k) ==
    replace(replace(replace(k, " ", <<"_">>), ".", <<"^">>), "$", <<"#">>)

\* CDF2ADT convert_metadata: new_map[kk] = metadata[k], in iteration order
RECURSIVE convert_metadata_from(_, _)
convert_metadata_from(metadata, new_map) ==
    IF metadata = <<>> THEN new_map
    ELSE convert_metadata_from(Tail(metadata),
            DictSet(new_map, convert_key(Head(metadata).k), Head(metadata).v))

convert_metadata(metadata) == convert_metadata_from(metadata, <<>>)

\* ADT2CDF convert_metadata: new_map[kk] = MetadataConversion(value, key)
RECURSIVE ADT2CDF_convert_metadata_from(_, _)
ADT2CDF_convert_metadata_from(metadata, new_map) ==
    IF metadata = <<>> THEN new_map
    ELSE ADT2CDF_convert_metadata_from(Tail(metadata),
            DictSet(new_map, convert_key(Head(metadata).k),
                    [value |-> Head(metadata).v, key |-> Head(metadata).k]))

ADT2CDF_convert_metadata(metadata) == ADT2CDF_convert_metadata_from(metadata, <<>>)

-----------------------------------------------------------------------------
(* Diff: CDF2ADT get_twin_dict and get_update_patches *)

ASSET == "dtmi:digitaltwins:cognite:cdf:Asset;1"
TIMESERIES == "dtmi:digitaltwins:cognite:cdf:TimeSeries;1"

\* the base digital twin structure for a CDF resource
get_twin_dict(resource, model) ==
    LET twin_dict == [displayName |-> resource.name,
                      externalId  |-> resource.external_id,
                      id          |-> str(resource.id),
                      model       |-> model,
                      tags        |-> [values |-> convert_metadata(resource.metadata)]]
    IN IF Truthy(resource.description)
       THEN twin_dict @@ ("description" :> resource.description)
       ELSE twin_dict

PatchOp(op, path, value) == [op |-> op, path |-> path, value |-> value]
RemoveOp(path) == [op |-> "remove", path |-> path]

\* for k in meta: add when the twin lacks k, replace when the value differs
RECURSIVE meta_add_replace(_, _)
meta_add_replace(meta, values) ==
    IF meta = <<>> THEN <<>>
    ELSE LET k == Head(meta).k
             v == Head(meta).v
             p == IF ~DictHas(values, k)
                     THEN <<PatchOp("add", <<"tags", "values", k>>, v)>>
                  ELSE IF v # DictGet(values, k)
                     THEN <<PatchOp("replace", <<"tags", "values", k>>, v)>>
                  ELSE <<>>
         IN p \o meta_add_replace(Tail(meta), values)

\* for k in digital_twin['tags']['values']: remove when meta lacks k
RECURSIVE meta_remove(_, _)
meta_remove(values, meta) ==
    IF values = <<>> THEN <<>>
    ELSE (IF ~DictHas(meta, Head(values).k)
          THEN <<RemoveOp(<<"tags", "values", Head(values).k>>)>>
          ELSE <<>>) \o meta_remove(Tail(values), meta)

\* the tags/values map get_update_patches works on (created empty when absent)
twin_values(digital_twin) ==
    IF "values" \in DOMAIN digital_twin.tags THEN digital_twin.tags.values ELSE <<>>

\* external ID is set only if empty (a mismatch is logged, never patched)
external_id_patches(resource, digital_twin) ==
    IF "externalId" \notin DOMAIN digital_twin
      THEN <<PatchOp("add", <<"externalId">>, resource.external_id)>>
    ELSE IF digital_twin.externalId = <<>>
      THEN <<PatchOp("replace", <<"externalId">>, resource.external_id)>>
    ELSE <<>>

\* internal ID likewise
id_patches(resource, digital_twin) ==
    IF "id" \notin DOMAIN digital_twin
      THEN <<PatchOp("add", <<"id">>, str(resource.id))>>
    ELSE IF digital_twin.id = ""
      THEN <<PatchOp("replace", <<"id">>, str(resource.id))>>
    ELSE <<>>

display_name_patches(resource, digital_twin) ==
    IF "displayName" \notin DOMAIN digital_twin
      THEN <<PatchOp("add", <<"displayName">>, resource.name)>>
    ELSE IF resource.name # digital_twin.displayName
      THEN <<PatchOp("replace", <<"displayName">>, resource.name)>>
    ELSE <<>>

\* a bug description_patches could have: no add case, replace on an absent path
description_patches_no_add(resource, digital_twin) ==
    IF ~Truthy(resource.description)
      THEN (IF "description" \in DOMAIN digital_twin
            THEN <<RemoveOp(<<"description">>)>> ELSE <<>>)
    ELSE IF "description" \notin DOMAIN digital_twin
         \/ resource.description # digital_twin.description
      THEN <<PatchOp("replace", <<"description">>, resource.description)>>
    ELSE <<>>

\* description may not exist yet/anymore
description_patches(resource, digital_twin) ==
    IF ~Truthy(resource.description)
      THEN (IF "description" \in DOMAIN digital_twin
            THEN <<RemoveOp(<<"description">>)>> ELSE <<>>)
    ELSE IF "description" \notin DOMAIN digital_twin
      THEN <<PatchOp("add", <<"description">>, resource.description)>>
    ELSE IF resource.description # digital_twin.description
      THEN <<PatchOp("replace", <<"description">>, resource.description)>>
    ELSE <<>>

\* CDF metadata against the 'tags' map of the twin
metadata_patches(resource, digital_twin) ==
    LET values == twin_values(digital_twin)
        meta == convert_metadata(resource.metadata)
    IN IF ~DictEq(meta, values)
       THEN meta_add_replace(meta, values) \o meta_remove(values, meta)
       ELSE <<>>

\* the dict digital_twin after get_update_patches(resource, digital_twin):
\* digital_twin['tags']['values'] = {} is set on the dict that was handed in
twin_after_patches(resource, digital_twin) ==
    IF "values" \notin DOMAIN digital_twin.tags
    THEN [digital_twin EXCEPT !.tags = ("values" :> <<>>) @@ @]
    ELSE digital_twin

get_update_patches(resource, digital_twin) ==
    external_id_patches(resource, digital_twin)
    \o id_patches(resource, digital_twin)
    \o display_name_patches(resource, digital_twin)
    \o description_patches(resource, digital_twin)
    \o metadata_patches(resource, digital_twin)

-----------------------------------------------------------------------------
(* Apply: ADT2CDF fetch_changes_to_CDF_record *)

\* st = [has_change, record, error]; error "" while no exception was raised
check_value_change_and_update_record(st, converted_metadata, metadata_key, metadata_value) ==
    IF DictHas(converted_metadata, metadata_key)
    THEN IF DictGet(converted_metadata, metadata_key).value # metadata_value
         THEN [st EXCEPT !.has_change = TRUE,
                         !.record.metadata =
                             DictSet(@, DictGet(converted_metadata, metadata_key).key,
                                     metadata_value)]
         ELSE st
    ELSE [st EXCEPT !.has_change = TRUE,
                    !.record.metadata = DictSet(@, metadata_key, metadata_value)]

\* a bug immutable_id_action could have: the op marks the record as changed
immutable_id_action_changed(st, action) == [st EXCEPT !.has_change = TRUE]

\* an action on /externalId or /id: the record is left as it is.  An add of the
\* external id reads action['value'] for a lookup in CDF, whose answer is only logged.
immutable_id_action(st, action) ==
    IF action.path = <<"externalId">> /\ action.op = "add" /\ "value" \notin DOMAIN action
    THEN [st EXCEPT !.error = "KeyError"]
    ELSE st

\* one iteration of "for action in event_body['patch']"
apply_action(st, action, converted_metadata) ==
    LET hasValue == "value" \in DOMAIN action
        keyError == [st EXCEPT !.error = "KeyError"]
    IN
    IF action.path = <<"displayName">> THEN
        IF action.op = "remove" THEN st
        ELSE IF ~hasValue THEN keyError
        ELSE IF st.record.name # action.value
             THEN [st EXCEPT !.has_change = TRUE, !.record.name = action.value]
             ELSE st
    ELSE IF action.path = <<"description">> THEN
        IF action.op = "remove"
        THEN IF Truthy(st.record.description)
             THEN [st EXCEPT !.has_change = TRUE, !.record.description = ""]
             ELSE st
        ELSE IF ~hasValue THEN keyError
        ELSE IF st.record.description # action.value
             THEN [st EXCEPT !.has_change = TRUE, !.record.description = action.value]
             ELSE st
    ELSE IF action.path \in {<<"externalId">>, <<"id">>} THEN
        immutable_id_action(st, action)
    ELSE IF action.path = <<"tags", "values">> THEN
        IF action.op = "add"
        THEN IF converted_metadata = <<>>
             THEN IF ~hasValue THEN keyError
                  ELSE [st EXCEPT !.has_change = TRUE, !.record.metadata = action.value]
             ELSE st
        ELSE IF action.op = "remove"
        THEN IF converted_metadata # <<>>
             THEN [st EXCEPT !.has_change = TRUE, !.record.metadata = <<>>]
             ELSE st
        ELSE st
    ELSE IF Len(action.path) = 3 /\ SubSeq(action.path, 1, 2) = <<"tags", "values">> THEN
        LET path == action.path[3] IN
        IF action.op \in {"replace", "add"}
        THEN IF ~hasValue THEN keyError
             ELSE check_value_change_and_update_record(st, converted_metadata, path,
                                                       action.value)
        ELSE IF action.op = "remove" /\ DictHas(converted_metadata, path)
        THEN LET key == DictGet(converted_metadata, path).key IN
             IF DictHas(st.record.metadata, key)
             THEN [st EXCEPT !.has_change = TRUE, !.record.metadata = DictDel(@, key)]
             ELSE [st EXCEPT !.has_change = TRUE, !.error = "KeyError"]
        ELSE st
    ELSE st

RECURSIVE apply_actions(_, _, _)
apply_actions(st, patch, converted_metadata) ==
    IF patch = <<>> \/ st.error # "" THEN st
    ELSE apply_actions(apply_action(st, Head(patch), converted_metadata),
                       Tail(patch), converted_metadata)

\* returns [has_change, record, error]: convert_metadata iterates the metadata of
\* the record, which raises TypeError on None; event_body['patch'] raises KeyError
fetch_changes_to_CDF_record(record_to_update, event_body) ==
    LET st == [has_change |-> FALSE, record |-> record_to_update, error |-> ""]
    IN IF IsNone(record_to_update.metadata) THEN [st EXCEPT !.error = "TypeError"]
       ELSE IF "patch" \notin DOMAIN event_body THEN [st EXCEPT !.error = "KeyError"]
       ELSE apply_actions(st, event_body.patch,
                          ADT2CDF_convert_metadata(record_to_update.metadata))

\* the object record_to_update after fetch_changes_to_CDF_record: the fields are
\* assigned on the object that was handed in, which is also the one returned
record_after_changes(record_to_update, event_body) ==
    fetch_changes_to_CDF_record(record_to_update, event_body).record

-----------------------------------------------------------------------------
(* Specification SpecDiff: get_update_patches followed by                  *)
(* fetch_changes_to_CDF_record on drawn node states                        *)

MetaKeys == { <<"a", " ">>, <<"a", "_">>, <<"c">> }
MetaValues == { "1", "2" }
MetaEntries == [k : MetaKeys, v : MetaValues]

\* the dicts of at most n entries
RECURSIVE DictsUpTo(_)
DictsUpTo(n) ==
    IF n = 0 THEN { <<>> }
    ELSE DictsUpTo(n - 1) \cup
         { Append(d, e) : d \in { x \in DictsUpTo(n - 1) : Len(x) = n - 1 },
                          e \in MetaEntries }

MetaDicts == { d \in DictsUpTo(MaxMeta) : IsDict(d) }

\* the metadata of A: as MetaDicts, every value "1"
ApplyMetaDicts == { d \in MetaDicts : \A i \in 1..Len(d) : d[i].v = "1" }

\* the node state B: the CDF resource the bulk pass reads
DiffResources ==
    [external_id : { <<"A", ":", "1">> }, id : { 7 },
     name : { "n1", "n2" }, description : { None, "", "d1", "d2" },
     metadata : MetaDicts]

\* the node state A: the CDF record an Update event is applied to
ApplyRecords ==
    [external_id : { <<"A", ":", "1">> }, id : { 7 },
     name : { "n1" }, description : { None, "", "d1" },
     metadata : ApplyMetaDicts]

\* the twins of a node: the one the bulk pass creates for it, and that twin
\* after an edit in ADT of its id properties, its description or its tags
TwinsOf(node) ==
    LET t == get_twin_dict(node, ASSET)
        noIds == [f \in DOMAIN t \ {"externalId", "id"} |-> t[f]]
    IN { t,
         noIds,
         [t EXCEPT !.externalId = <<>>, !.id = ""],
         [f \in DOMAIN t \ {"displayName"} |-> t[f]],
         [f \in (DOMAIN t) \cup {"description"} |->
              IF f = "description" THEN "" ELSE t[f]],
         [t EXCEPT !.tags = [f \in {} |-> <<>>]] }

DiffInit ==
    /\ diff_pc = "start"
    /\ diff_resource \in DiffResources
    /\ apply_record \in ApplyRecords
    /\ diff_twin \in TwinsOf(apply_record)
    /\ diff_patches = <<>>
    /\ apply_result = NoResult
    /\ diff_twin_after = <<>>
    /\ apply_record_after = <<>>
    /\ QueryIdle /\ CdfIdle /\ AdtIdle /\ IncIdle /\ SyncIdle

\* update_patches = get_update_patches(a, dt)
Diff ==
    /\ diff_pc = "start"
    /\ diff_patches' = get_update_patches(diff_resource, diff_twin)
    /\ diff_twin_after' = twin_after_patches(diff_resource, diff_twin)
    /\ diff_pc' = "diffed"
    /\ UNCHANGED <<diff_resource, diff_twin, apply_record, apply_result, apply_record_after,
                   notDiffVars>>

\* has_change, asset_to_update = fetch_changes_to_CDF_record(cdf_client, asset_to_update, event_body)
Apply ==
    /\ diff_pc = "diffed"
    /\ apply_result' = fetch_changes_to_CDF_record(apply_record, [patch |-> diff_patches])
    /\ apply_record_after' = record_after_changes(apply_record, [patch |-> diff_patches])
    /\ diff_pc' = "applied"
    /\ UNCHANGED <<diff_resource, diff_twin, diff_patches, apply_record, diff_twin_after,
                   notDiffVars>>

-----------------------------------------------------------------------------
(* Batch query executor: CDF2ADT query_adt_batches *)

SQL_IN_BATCH_SIZE == 100

Min(a, b) == IF a < b THEN a ELSE b

\* Python range(start, stop, step) as a list
RECURSIVE range(_, _, _)
range(start, stop, step) ==
    IF start >= stop THEN <<>> ELSE <<start>> \o range(start + step, stop, step)

\* a bug slice could have: the upper index taken as inclusive-minus-one
slice_short(s, i, j) == SubSeq(s, i + 1, Min(j - 1, Len(s)))

\* Python slice s[i:j] (0-based, j exclusive, clipped to the list)
slice(s, i, j) == SubSeq(s, i + 1, Min(j, Len(s)))

\* [predicates[i:i+n] for i in range(0, len(predicates), n)]
pred_batches(predicates, n) ==
    LET starts == range(0, Len(predicates), n)
    IN [j \in 1..Len(starts) |-> slice(predicates, starts[j], starts[j] + n)]

\* a set as a list, in the order the store happens to return it
RECURSIVE SetToSeq(_)
SetToSeq(S) ==
    IF S = {} THEN <<>>
    ELSE LET x == CHOOSE y \in S : TRUE IN <<x>> \o SetToSeq(S \ {x})

SeqToSet(s) == { s[i] : i \in 1..Len(s) }

\* adt_client.query_twins('SELECT R FROM DIGITALTWINS T JOIN CT RELATED T.<name> R
\*                         WHERE T.$dtId in <pred_batch>') over relationships rels
query_twins_related(rels, name, pred_batch) ==
    SetToSeq({ [R |-> r] : r \in { x \in rels : /\ x.name = name
                                                /\ x.sourceId \in SeqToSet(pred_batch) } })

\* the whole of query_adt_batches for the relatesTo template
RECURSIVE query_batches_from(_, _, _)
query_batches_from(rels, name, batches) ==
    IF batches = <<>> THEN <<>>
    ELSE query_twins_related(rels, name, Head(batches))
         \o query_batches_from(rels, name, Tail(batches))

query_adt_batches(rels, name, predicates) ==
    query_batches_from(rels, name, pred_batches(predicates, SQL_IN_BATCH_SIZE))

-----------------------------------------------------------------------------
(* Specification SpecBatch: the loop of query_adt_batches, one query per   *)
(* step, for drawn id lists, batch sizes and Twin Graph relationships      *)

QueryIds == { <<"a">>, <<"b">>, <<"c">> }

RECURSIVE SeqsUpTo(_, _)
SeqsUpTo(S, n) ==
    IF n = 0 THEN { <<>> }
    ELSE SeqsUpTo(S, n - 1) \cup
         { Append(q, e) : q \in { x \in SeqsUpTo(S, n - 1) : Len(x) = n - 1 }, e \in S }

\* one relatesTo edge leaving each queried twin, and one parent edge
QueryRels ==
    { [relationshipId |-> <<"r">> \o t, name |-> "relatesTo", sourceId |-> t,
       targetId |-> <<"a">>] : t \in QueryIds }
    \cup { [relationshipId |-> <<"p">>, name |-> "parent", sourceId |-> <<"b">>,
            targetId |-> <<"a">>] }

QueryInit ==
    /\ q_pc = "loop"
    /\ q_predicates \in SeqsUpTo(QueryIds, MaxPredicates)
    /\ q_n \in 1..MaxBatchSize
    /\ q_rels \in SUBSET QueryRels
    /\ q_i = 1
    /\ q_batches = <<>>
    /\ q_res_adt = <<>>
    /\ DiffIdle /\ CdfIdle /\ AdtIdle /\ IncIdle /\ SyncIdle

\* one iteration of "for pred_batch in [...]": the query and res_adt.extend
QueryBatch ==
    /\ q_pc = "loop"
    /\ q_i <= Len(pred_batches(q_predicates, q_n))
    /\ LET pred_batch == pred_batches(q_predicates, q_n)[q_i]
       IN /\ q_batches' = Append(q_batches, pred_batch)
          /\ q_res_adt' = q_res_adt \o query_twins_related(q_rels, "relatesTo", pred_batch)
    /\ q_i' = q_i + 1
    /\ UNCHANGED <<q_pc, q_predicates, q_n, q_rels, notQueryVars>>

\* return res_adt
QueryReturn ==
    /\ q_pc = "loop"
    /\ q_i > Len(pred_batches(q_predicates, q_n))
    /\ q_pc' = "done"
    /\ UNCHANGED <<q_predicates, q_n, q_i, q_batches, q_res_adt, q_rels, notQueryVars>>

-----------------------------------------------------------------------------
(* The Asset Graph (CDF) as the handlers see it through cdf_client.  A       *)
(* world w is a record of the stores together with the log of the mutating *)
(* calls issued (calls) and the exception that ended the handler (error,   *)
(* "" when none).                                                          *)

ROOT_EXTERNAL_ID == <<"R">>

World ==
    [assets        |-> cdf_assets,
     timeseries    |-> cdf_timeseries,
     datapoints    |-> cdf_datapoints,
     relationships |-> cdf_relationships,
     labels        |-> cdf_labels,
     next_id       |-> cdf_next_id,
     lag           |-> cdf_lag,
     calls         |-> <<>>,
     error         |-> ""]

Raise(w, e) == [w EXCEPT !.error = e]
Logged(w, call) == [w EXCEPT !.calls = Append(@, call)]

\* f without the key k
Without(f, k) == [x \in DOMAIN f \ {k} |-> f[x]]

\* a bug has_asset_in_CDF_by_external_id could have: the lookup finds nothing
has_asset_never(w, adt_id) == FALSE

\* cdf_client.assets.retrieve(external_id=...) is not None
has_asset_in_CDF_by_external_id(w, adt_id) == adt_id \in DOMAIN w.assets

\* a bug has_timeseries_in_CDF_by_external_id could have: the lookup always finds
has_timeseries_always(w, adt_id) == TRUE

\* cdf_client.time_series.retrieve(external_id=...) is not None
has_timeseries_in_CDF_by_external_id(w, adt_id) == adt_id \in DOMAIN w.timeseries

\* cdf_client.assets.create: the store assigns the internal id; it rejects a
\* duplicate external id and a parent that does not exist
assets_create(w, new_asset) ==
    LET w1 == Logged(w, [api |-> "assets.create", external_id |-> new_asset.external_id])
    IN IF new_asset.external_id \in DOMAIN w.assets THEN Raise(w1, "CogniteDuplicatedError")
       ELSE IF new_asset.parent_external_id \notin DOMAIN w.assets
         THEN Raise(w1, "CogniteAPIError")
       ELSE [w1 EXCEPT !.assets = @ @@ (new_asset.external_id :>
                                         [new_asset EXCEPT !.id = w.next_id]),
                       !.next_id = @ + 1]

\* cdf_client.assets.delete(external_id=...), not recursive: the store rejects
\* the delete of an asset that has children
assets_delete(w, external_id) ==
    LET w1 == Logged(w, [api |-> "assets.delete", external_id |-> external_id])
    IN IF external_id \notin DOMAIN w.assets THEN Raise(w1, "CogniteNotFoundError")
       ELSE IF \E c \in DOMAIN w.assets : w.assets[c].parent_external_id = external_id
         THEN Raise(w1, "CogniteAPIError")
       ELSE [w1 EXCEPT !.assets = Without(@, external_id)]

\* cdf_client.assets.update(AssetUpdate(external_id).parent_external_id.set(p))
assets_update_parent(w, external_id, parent_external_id) ==
    LET w1 == Logged(w, [api |-> "assets.update", external_id |-> external_id])
    IN IF external_id \notin DOMAIN w.assets \/ parent_external_id \notin DOMAIN w.assets
       THEN Raise(w1, "CogniteAPIError")
       ELSE [w1 EXCEPT !.assets[external_id].parent_external_id = parent_external_id]

\* cdf_client.assets.update(asset): the writable fields of the asset are replaced
\* by those of the object; the store keeps the internal id
assets_update(w, asset) ==
    LET w1 == Logged(w, [api |-> "assets.update", external_id |-> asset.external_id])
    IN IF asset.external_id \notin DOMAIN w.assets THEN Raise(w1, "CogniteNotFoundError")
       ELSE [w1 EXCEPT !.assets[asset.external_id] = [asset EXCEPT !.id = w.assets[asset.external_id].id]]

\* cdf_client.time_series.update(timeseries)
time_series_update(w, timeseries) ==
    LET w1 == Logged(w, [api |-> "time_series.update",
                         external_id |-> timeseries.external_id])
    IN IF timeseries.external_id \notin DOMAIN w.timeseries
       THEN Raise(w1, "CogniteNotFoundError")
       ELSE [w1 EXCEPT !.timeseries[timeseries.external_id] =
                           [timeseries EXCEPT !.id = w.timeseries[timeseries.external_id].id]]

\* cdf_client.time_series.create
time_series_create(w, new_data) ==
    LET w1 == Logged(w, [api |-> "time_series.create", external_id |-> new_data.external_id])
    IN IF new_data.external_id \in DOMAIN w.timeseries
       THEN Raise(w1, "CogniteDuplicatedError")
       ELSE [w1 EXCEPT !.timeseries = @ @@ (new_data.external_id :>
                                             [new_data EXCEPT !.id = w.next_id]),
                       !.next_id = @ + 1]

\* cdf_client.time_series.delete(external_id=...): the datapoints go with it
time_series_delete(w, external_id) ==
    LET w1 == Logged(w, [api |-> "time_series.delete", external_id |-> external_id])
    IN IF external_id \notin DOMAIN w.timeseries THEN Raise(w1, "CogniteNotFoundError")
       ELSE [w1 EXCEPT !.timeseries = Without(@, external_id),
                       !.datapoints = Without(@, external_id)]

\* cdf_client.time_series.update(TimeSeriesUpdate(external_id).asset_id.set(id))
time_series_update_asset_id(w, external_id, asset_id) ==
    LET w1 == Logged(w, [api |-> "time_series.update", external_id |-> external_id])
    IN IF external_id \notin DOMAIN w.timeseries THEN Raise(w1, "CogniteAPIError")
       ELSE [w1 EXCEPT !.timeseries[external_id].asset_id = asset_id]

\* cdf_client.datapoints.insert([...], external_id=...)
datapoints_insert(w, external_id, datapoint) ==
    LET w1 == Logged(w, [api |-> "datapoints.insert", external_id |-> external_id])
    IN IF external_id \notin DOMAIN w.timeseries THEN Raise(w1, "CogniteNotFoundError")
       ELSE [w1 EXCEPT !.datapoints =
                 [x \in DOMAIN @ \cup {external_id} |->
                     IF x = external_id THEN datapoint ELSE @[x]]]

\* cdf_client.relationships.create([rel]): every label must be defined
relationships_create(w, rel) ==
    LET w1 == Logged(w, [api |-> "relationships.create", external_id |-> rel.external_id])
    IN IF rel.external_id \in DOMAIN w.relationships
       THEN Raise(w1, "CogniteDuplicatedError")
       ELSE IF \E i \in 1..Len(rel.labels) : rel.labels[i] \notin w.labels
         THEN Raise(w1, "CogniteAPIError")
       ELSE [w1 EXCEPT !.relationships = @ @@ (rel.external_id :> rel)]

-----------------------------------------------------------------------------
(* ADT2CDF: the handlers of twin events *)

\* new_asset / new_data as the handler fills it from the event body
new_resource(adt_id, event_body, link) ==
    [external_id |-> adt_id,
     id          |-> 0,
     name        |-> IF "displayName" \in DOMAIN event_body THEN event_body.displayName
                     ELSE IF "dtId" \in DOMAIN event_body THEN event_body.dtId
                     ELSE None,
     description |-> IF "description" \in DOMAIN event_body THEN event_body.description
                     ELSE None,
     metadata    |-> IF "values" \in DOMAIN event_body.tags THEN event_body.tags.values
                     ELSE None]
    @@ link

create_asset(w, adt_id, event_body) ==
    IF ~has_asset_in_CDF_by_external_id(w, adt_id)
    THEN [ret |-> TRUE,
          w |-> assets_create(w, new_resource(adt_id, event_body,
                                  [parent_external_id |-> ROOT_EXTERNAL_ID]))]
    ELSE [ret |-> FALSE, w |-> w]

delete_asset(w, adt_id) ==
    IF has_asset_in_CDF_by_external_id(w, adt_id)
    THEN [ret |-> TRUE, w |-> assets_delete(w, adt_id)]
    ELSE [ret |-> TRUE, w |-> w]

\* float(latest_value) succeeds
IsNumber(latest_value) == latest_value \in { "1.5", "2.5" }

\* cdf_client.time_series.retrieve(external_id=...) of a time series that was deleted:
\* the store still returns it for the next `left` lookups
retrieve_deleted(w, external_id, left) ==
    Logged(w, [api |-> "time_series.retrieve", external_id |-> external_id,
               found |-> left > 0])

\* a bug wait_until_deleted could have: the lookup is made once, whatever it returns
wait_once(w, external_id, left) == retrieve_deleted(w, external_id, left)

\* while (cdf_client.time_series.retrieve(external_id=...)): time.sleep(0.1)
RECURSIVE wait_until_deleted(_, _, _)
wait_until_deleted(w, external_id, left) ==
    IF left > 0
    THEN wait_until_deleted(retrieve_deleted(w, external_id, left), external_id, left - 1)
    ELSE retrieve_deleted(w, external_id, left)

\* a bug check_and_insert_datapoint could have: the datapoint is inserted whatever
\* the timestamp of the latest datapoint
check_and_insert_datapoint_unchecked(w, adt_id, latest_value, timestamp) ==
    IF adt_id \notin DOMAIN w.timeseries THEN [ret |-> FALSE, w |-> Raise(w, "AttributeError")]
    ELSE [ret |-> TRUE,
          w |-> datapoints_insert(w, adt_id,
                    [timestamp |-> timestamp * 1000, value |-> latest_value,
                     is_float |-> IsNumber(latest_value)])]

\* returns [ret, w]; timestamp in seconds, stored in milliseconds
check_and_insert_datapoint(w, adt_id, latest_value, timestamp) ==
    LET has_datapoint == adt_id \in DOMAIN w.datapoints
        timeseries == w.timeseries[adt_id]
    IN
    IF adt_id \notin DOMAIN w.timeseries THEN [ret |-> FALSE, w |-> Raise(w, "AttributeError")]
    ELSE IF ~has_datapoint \/ w.datapoints[adt_id].timestamp < timestamp * 1000 THEN
        IF IsNumber(latest_value) THEN
            IF timeseries.is_string THEN [ret |-> FALSE, w |-> w]
            ELSE [ret |-> TRUE,
                  w |-> datapoints_insert(w, adt_id,
                            [timestamp |-> timestamp * 1000, value |-> latest_value,
                             is_float |-> TRUE])]
        ELSE IF ~has_datapoint THEN
            \* convert the timeseries to string by recreation: delete, wait until the
            \* delete is visible, create again with is_string set and a new internal id
            LET w1 == time_series_delete(w, adt_id)
                w2 == IF w1.error # "" THEN w1
                      ELSE time_series_create(wait_until_deleted(w1, adt_id, w.lag),
                                              [timeseries EXCEPT !.is_string = TRUE])
            IN [ret |-> TRUE,
                w |-> IF w2.error # "" THEN w2
                      ELSE datapoints_insert(w2, adt_id,
                               [timestamp |-> timestamp * 1000, value |-> latest_value,
                                is_float |-> FALSE])]
        ELSE IF ~timeseries.is_string THEN [ret |-> FALSE, w |-> w]
        ELSE [ret |-> TRUE,
              w |-> datapoints_insert(w, adt_id,
                        [timestamp |-> timestamp * 1000, value |-> latest_value,
                         is_float |-> FALSE])]
    ELSE [ret |-> FALSE, w |-> w]

create_timeseries(w, adt_id, event_body) ==
    IF ~has_timeseries_in_CDF_by_external_id(w, adt_id)
    THEN IF ROOT_EXTERNAL_ID \notin DOMAIN w.assets
         THEN [ret |-> FALSE, w |-> Raise(w, "AttributeError")]
         ELSE
         LET w1 == time_series_create(w, new_resource(adt_id, event_body,
                       [asset_id |-> w.assets[ROOT_EXTERNAL_ID].id, is_string |-> FALSE]))
         IN IF w1.error = ""
               /\ "latestValue" \in DOMAIN event_body /\ "timestamp" \in DOMAIN event_body
               /\ event_body.latestValue # "" /\ event_body.timestamp # 0
            THEN [ret |-> TRUE,
                  w |-> check_and_insert_datapoint(w1, adt_id, event_body.latestValue,
                                                   event_body.timestamp).w]
            ELSE [ret |-> TRUE, w |-> w1]
    ELSE [ret |-> FALSE, w |-> w]

ADT2CDF_delete_timeseries(w, adt_id) ==
    IF has_timeseries_in_CDF_by_external_id(w, adt_id)
    THEN [ret |-> TRUE, w |-> time_series_delete(w, adt_id)]
    ELSE [ret |-> TRUE, w |-> w]

\* the record an Update works on: retrieved by adt_id, and when that finds nothing by
\* the externalId of the twin adt_id; get_digital_twin raises when the twin is missing.
\* Returns [found, record, error].
record_to_update(store, twins, adt_id) ==
    IF adt_id \in DOMAIN store
      THEN [found |-> TRUE, record |-> store[adt_id], error |-> ""]
    ELSE IF adt_id \notin DOMAIN twins
      THEN [found |-> FALSE, record |-> <<>>, error |-> "ResourceNotFoundError"]
    ELSE IF "externalId" \notin DOMAIN twins[adt_id]
      THEN [found |-> FALSE, record |-> <<>>, error |-> ""]
    ELSE IF twins[adt_id].externalId \notin DOMAIN store
      THEN [found |-> FALSE, record |-> <<>>, error |-> ""]
    ELSE [found |-> TRUE, record |-> store[twins[adt_id].externalId], error |-> ""]

\* KeyError is caught and answered by False, any other exception leaves the handler
update_asset(w, twins, adt_id, event_body) ==
    LET asset_to_update == record_to_update(w.assets, twins, adt_id)
        st == fetch_changes_to_CDF_record(asset_to_update.record, event_body)
    IN IF asset_to_update.error # ""
         THEN [ret |-> FALSE, w |-> Raise(w, asset_to_update.error)]
       ELSE IF ~asset_to_update.found THEN [ret |-> FALSE, w |-> w]
       ELSE IF st.error = "KeyError" THEN [ret |-> FALSE, w |-> w]
       ELSE IF st.error # "" THEN [ret |-> FALSE, w |-> Raise(w, st.error)]
       ELSE IF st.has_change THEN [ret |-> TRUE, w |-> assets_update(w, st.record)]
       ELSE [ret |-> TRUE, w |-> w]

\* '/timestamp' in action_item.get('path')
is_timestamp_action(action) == \E i \in 1..Len(action.path) : action.path[i] = "timestamp"

\* the loop over the patch that inserts the latest datapoint: a /latestValue action
\* that is no remove is paired with the first timestamp action of the patch, which
\* is taken off the patch when it is no remove.  st = [has_datapoint, w, patch]
RECURSIVE insert_latest_datapoints(_, _, _)
insert_latest_datapoints(st, actions, external_id) ==
    IF actions = <<>> \/ st.w.error # "" THEN st
    ELSE LET action == Head(actions)
             action_pair == SelectSeq(st.patch, is_timestamp_action)
         IN IF action.path = <<"latestValue">> /\ action.op # "remove"
               /\ action_pair # <<>> /\ action_pair[1].op # "remove"
            THEN LET i == CHOOSE j \in 1..Len(st.patch) :
                              /\ is_timestamp_action(st.patch[j])
                              /\ \A k \in 1..(j - 1) : ~is_timestamp_action(st.patch[k])
                     r == check_and_insert_datapoint(st.w, external_id, action.value,
                                                     action_pair[1].value)
                 IN insert_latest_datapoints(
                        [has_datapoint |-> r.ret, w |-> r.w,
                         patch |-> SubSeq(st.patch, 1, i - 1)
                                   \o SubSeq(st.patch, i + 1, Len(st.patch))],
                        Tail(actions), external_id)
            ELSE insert_latest_datapoints(st, Tail(actions), external_id)

\* ADT2CDF update_timeseries: no exception is caught here
ADT2CDF_update_timeseries(w, twins, adt_id, event_body) ==
    LET timeseries_to_update == record_to_update(w.timeseries, twins, adt_id)
        st == fetch_changes_to_CDF_record(timeseries_to_update.record, event_body)
        w1 == IF st.has_change THEN time_series_update(w, st.record) ELSE w
        dp == insert_latest_datapoints(
                  [has_datapoint |-> FALSE, w |-> w1, patch |-> event_body.patch],
                  event_body.patch, timeseries_to_update.record.external_id)
    IN IF timeseries_to_update.error # ""
         THEN [ret |-> FALSE, w |-> Raise(w, timeseries_to_update.error)]
       ELSE IF ~timeseries_to_update.found THEN [ret |-> FALSE, w |-> w]
       ELSE IF st.error # "" THEN [ret |-> FALSE, w |-> Raise(w, st.error)]
       ELSE IF w1.error # "" THEN [ret |-> FALSE, w |-> w1]
       ELSE [ret |-> TRUE, w |-> dp.w]

\* a bug event_adt_id could have: the externalId of the body is not looked at
event_adt_id_subject(event_representation) == event_representation.subject

\* the external id the twin handlers work on
event_adt_id(event_representation) ==
    IF "externalId" \in DOMAIN event_representation.body
       /\ event_representation.body.externalId # <<>>
    THEN event_representation.body.externalId
    ELSE event_representation.subject

-----------------------------------------------------------------------------
(* ADT2CDF: relationship events *)

\* adt_client.get_digital_twin, {} when ResourceNotFoundError was caught
get_digital_twin_or_empty(twins, digital_twin_id) ==
    IF digital_twin_id \in DOMAIN twins THEN twins[digital_twin_id] ELSE <<>>

\* a bug get_rel_endpoints could have: the root asset is the source, and some time
\* series or asset the target, whatever the relationship names
get_rel_endpoints_root(w, twins, rel) ==
    [found |-> TRUE,
     source |-> w.assets[ROOT_EXTERNAL_ID],
     target |-> IF rel.relationshipName = "contains"
                THEN w.timeseries[CHOOSE x \in DOMAIN w.timeseries : TRUE]
                ELSE w.assets[CHOOSE x \in DOMAIN w.assets : x # ROOT_EXTERNAL_ID]]

\* returns [found, source, target]: the CDF source asset and target resource
get_rel_endpoints(w, twins, rel) ==
    LET target_store == IF rel.relationshipName = "contains" THEN w.timeseries ELSE w.assets
        none == [found |-> FALSE, source |-> <<>>, target |-> <<>>]
        source_dt == get_digital_twin_or_empty(twins, rel.sourceId)
        target_dt == get_digital_twin_or_empty(twins, rel.targetId)
        source_found == \/ rel.sourceId \in DOMAIN w.assets
                        \/ /\ "externalId" \in DOMAIN source_dt
                           /\ source_dt.externalId \in DOMAIN w.assets
        source_asset == IF rel.sourceId \in DOMAIN w.assets THEN w.assets[rel.sourceId]
                        ELSE w.assets[source_dt.externalId]
        target_found == \/ rel.targetId \in DOMAIN target_store
                        \/ /\ "externalId" \in DOMAIN target_dt
                           /\ target_dt.externalId \in DOMAIN target_store
        target_res == IF rel.targetId \in DOMAIN target_store THEN target_store[rel.targetId]
                      ELSE target_store[target_dt.externalId]
    IN IF source_found /\ target_found
       THEN [found |-> TRUE, source |-> source_asset, target |-> target_res]
       ELSE none

\* a bug other_parent_rels could have: the query finds no row
other_parent_rels_none(rels, sourceId, relationshipId) == {}

\* the rows of "SELECT R FROM DIGITALTWINS T JOIN CT RELATED T.parent R WHERE
\* T.$dtId = '<sourceId>' and R.$relationshipId != '<relationshipId>'"
other_parent_rels(rels, sourceId, relationshipId) ==
    { r \in rels : /\ r.name = "parent"
                   /\ r.sourceId = sourceId
                   /\ r.relationshipId # relationshipId }

\* a bug other_contains_rels could have: the query finds no row
other_contains_rels_none(rels, targetId, relationshipId) == {}

\* the rows of "SELECT R FROM DIGITALTWINS T JOIN CT RELATED T.contains R WHERE
\* CT.$dtId = '<targetId>' and R.$relationshipId != '<relationshipId>'"
other_contains_rels(rels, targetId, relationshipId) ==
    { r \in rels : /\ r.name = "contains"
                   /\ r.targetId = targetId
                   /\ r.relationshipId # relationshipId }

\* str.split(sep) on a sequence of characters
RECURSIVE split(_, _)
split(s, sep) ==
    IF \A i \in 1..Len(s) : s[i] # sep THEN <<s>>
    ELSE LET i == CHOOSE j \in 1..Len(s) : s[j] = sep /\ \A l \in 1..(j - 1) : s[l] # sep
         IN <<SubSeq(s, 1, i - 1)>> \o split(SubSeq(s, i + 1, Len(s)), sep)

IsPrefix(prefix, s) == Len(prefix) <= Len(s) /\ SubSeq(s, 1, Len(prefix)) = prefix

\* cdf_client.labels.list(external_id_prefix=l)
labels_list(w, external_id_prefix) == { l \in w.labels : IsPrefix(external_id_prefix, l) }

create_relationship(w, rels, event_body, rel_source, rel_target) ==
    IF event_body.relationshipName = "parent" THEN
        IF other_parent_rels(rels, event_body.sourceId, event_body.relationshipId) # {}
        THEN [ret |-> FALSE, w |-> w]
        ELSE IF w.assets[rel_source.external_id].parent_external_id = rel_target.external_id
        THEN [ret |-> TRUE, w |-> w]
        ELSE [ret |-> TRUE,
              w |-> assets_update_parent(w, rel_source.external_id, rel_target.external_id)]
    ELSE IF event_body.relationshipName = "contains" THEN
        IF other_contains_rels(rels, event_body.targetId, event_body.relationshipId) # {}
        THEN [ret |-> FALSE, w |-> w]
        ELSE IF w.timeseries[rel_target.external_id].asset_id = rel_source.id
        THEN [ret |-> FALSE, w |-> w]
        ELSE [ret |-> TRUE,
              w |-> time_series_update_asset_id(w, rel_target.external_id, rel_source.id)]
    ELSE IF event_body.relationshipName = "relatesTo" THEN
        IF event_body.relationshipId \in DOMAIN w.relationships
        THEN [ret |-> FALSE, w |-> w]
        ELSE LET labels == IF "labels" \in DOMAIN event_body
                           THEN split(event_body.labels, ",") ELSE <<>>
             IN IF \E j \in 1..Len(labels) : labels_list(w, labels[j]) = {}
                THEN [ret |-> FALSE, w |-> w]
                ELSE [ret |-> TRUE,
                      w |-> relationships_create(w,
                                [external_id        |-> event_body.relationshipId,
                                 source_external_id |-> rel_source.external_id,
                                 target_external_id |-> rel_target.external_id,
                                 labels             |-> labels])]
    ELSE [ret |-> FALSE, w |-> w]

\* cdf_client.labels.create(LabelDefinition(external_id=l, name=l))
labels_create(w, l) ==
    LET w1 == Logged(w, [api |-> "labels.create", external_id |-> l])
    IN IF l \in w.labels THEN Raise(w1, "CogniteDuplicatedError")
       ELSE [w1 EXCEPT !.labels = @ \cup {l}]

\* cdf_client.relationships.update(RelationshipUpdate(external_id)
\*     .labels.add(labels_add).labels.remove(labels_remove))
relationships_update_labels(w, external_id, labels_add, labels_remove) ==
    LET w1 == Logged(w, [api |-> "relationships.update", external_id |-> external_id,
                         add |-> labels_add, remove |-> labels_remove])
    IN IF external_id \notin DOMAIN w.relationships THEN Raise(w1, "CogniteNotFoundError")
       ELSE IF \E i \in 1..Len(labels_add) : labels_add[i] \notin w.labels
         THEN Raise(w1, "CogniteAPIError")
       ELSE [w1 EXCEPT !.relationships[external_id].labels =
                 SelectSeq(@, LAMBDA l : \A i \in 1..Len(labels_remove) :
                                             labels_remove[i] # l)
                 \o labels_add]

\* cdf_client.relationships.delete(external_id=...)
relationships_delete(w, external_id) ==
    LET w1 == Logged(w, [api |-> "relationships.delete", external_id |-> external_id])
    IN IF external_id \notin DOMAIN w.relationships THEN Raise(w1, "CogniteNotFoundError")
       ELSE [w1 EXCEPT !.relationships = Without(@, external_id)]

\* list(adt_client.query_twins(...)): the rows in the order the Twin Graph returns
\* them, which the query does not fix
query_rows(rows, rows_reversed) ==
    LET l == SetToSeq(rows)
    IN IF rows_reversed THEN [i \in 1..Len(l) |-> l[Len(l) + 1 - i]] ELSE l

\* the asset a delete falls back on: retrieved by the twin id, and when that finds
\* nothing by the externalId of the twin (get_digital_twin raises when the twin is
\* missing, dt['externalId'] when the twin has none).  Returns [found, asset, error].
fallback_asset(w, twins, digital_twin_id) ==
    IF digital_twin_id \in DOMAIN w.assets
      THEN [found |-> TRUE, asset |-> w.assets[digital_twin_id], error |-> ""]
    ELSE IF digital_twin_id \notin DOMAIN twins
      THEN [found |-> FALSE, asset |-> <<>>, error |-> "ResourceNotFoundError"]
    ELSE IF "externalId" \notin DOMAIN twins[digital_twin_id]
      THEN [found |-> FALSE, asset |-> <<>>, error |-> "KeyError"]
    ELSE IF twins[digital_twin_id].externalId \notin DOMAIN w.assets
      THEN [found |-> FALSE, asset |-> <<>>, error |-> ""]
    ELSE [found |-> TRUE, asset |-> w.assets[twins[digital_twin_id].externalId],
          error |-> ""]

\* a bug first_other_row could have: the other rows are not looked at
first_other_row_none(rows) == <<>>

\* the rows a delete looks at: parent_rels[0], contain_rels[0], if any
first_other_row(rows) == IF rows = <<>> THEN <<>> ELSE <<rows[1]>>

\* a bug endpoints_differ could have: the endpoints are never compared
endpoints_differ_never(rel, event_body) == FALSE

\* the two tests of a relatesTo delete: the source or the target the store recorded
\* is not the $sourceId or the $targetId of the event
endpoints_differ(rel, event_body) ==
    \/ rel.source_external_id # event_body.sourceId
    \/ rel.target_external_id # event_body.targetId

delete_relationship(w, twins, rels, rows_reversed, event_body, rel_source, rel_target) ==
    IF event_body.relationshipName = "parent" THEN
        IF rel_source.parent_external_id # rel_target.external_id
        THEN [ret |-> TRUE, w |-> w]
        ELSE
        LET parent_rels == first_other_row(query_rows(
                other_parent_rels(rels, event_body.sourceId, event_body.relationshipId),
                rows_reversed))
            new_parent_asset == fallback_asset(w, twins, parent_rels[1].targetId)
        IN IF parent_rels # <<>>
           THEN IF new_parent_asset.error # ""
                  THEN [ret |-> FALSE, w |-> Raise(w, new_parent_asset.error)]
                ELSE IF ~new_parent_asset.found THEN [ret |-> FALSE, w |-> w]
                ELSE [ret |-> TRUE,
                      w |-> assets_update_parent(w, rel_source.external_id,
                                                 new_parent_asset.asset.external_id)]
           ELSE [ret |-> TRUE,
                 w |-> assets_update_parent(w, rel_source.external_id, ROOT_EXTERNAL_ID)]
    ELSE IF event_body.relationshipName = "contains" THEN
        IF rel_source.id # rel_target.asset_id
        THEN [ret |-> TRUE, w |-> w]
        ELSE
        LET contain_rels == first_other_row(query_rows(
                other_contains_rels(rels, event_body.targetId, event_body.relationshipId),
                rows_reversed))
            new_linked_asset == fallback_asset(w, twins, contain_rels[1].sourceId)
        IN IF contain_rels # <<>>
           THEN IF new_linked_asset.error # ""
                  THEN [ret |-> FALSE, w |-> Raise(w, new_linked_asset.error)]
                ELSE IF ~new_linked_asset.found THEN [ret |-> FALSE, w |-> w]
                ELSE [ret |-> TRUE,
                      w |-> time_series_update_asset_id(w, rel_target.external_id,
                                                        new_linked_asset.asset.id)]
           ELSE IF ROOT_EXTERNAL_ID \notin DOMAIN w.assets
             THEN [ret |-> FALSE, w |-> Raise(w, "AttributeError")]
           ELSE [ret |-> TRUE,
                 w |-> time_series_update_asset_id(w, rel_target.external_id,
                                                   w.assets[ROOT_EXTERNAL_ID].id)]
    ELSE IF event_body.relationshipName = "relatesTo" THEN
        IF event_body.relationshipId \in DOMAIN w.relationships
        THEN LET rel == w.relationships[event_body.relationshipId]
             IN IF endpoints_differ(rel, event_body) THEN [ret |-> TRUE, w |-> w]
                ELSE [ret |-> TRUE,
                      w |-> relationships_delete(w, event_body.relationshipId)]
        ELSE [ret |-> FALSE, w |-> w]
    ELSE [ret |-> FALSE, w |-> w]

RELATIONSHIPS == <<"r", "e", "l", "a", "t", "i", "o", "n", "s", "h", "i", "p", "s">>

\* the first label of labels_new that labels.list does not answer with itself first
\* is created, and the loop ends there
RECURSIVE create_first_missing_label(_, _, _)
create_first_missing_label(w, rows_reversed, labels_new) ==
    IF labels_new = <<>> THEN w
    ELSE LET l == Head(labels_new)
             label_definitions == query_rows(labels_list(w, l), rows_reversed)
         IN IF label_definitions = <<>> \/ label_definitions[1] # l
            THEN labels_create(w, l)
            ELSE create_first_missing_label(w, rows_reversed, Tail(labels_new))

\* labels_add: the labels of labels_new that are not in labels_old, in their order
labels_to_add(labels_old, labels_new) ==
    SelectSeq(labels_new, LAMBDA l : \A i \in 1..Len(labels_old) : labels_old[i] # l)

\* a bug labels_to_remove could have: no stored label is ever removed
labels_to_remove_none(labels_old, labels_new) == <<>>

\* labels_remove: the labels of labels_old that are not in labels_new, in their order
labels_to_remove(labels_old, labels_new) ==
    SelectSeq(labels_old, LAMBDA l : \A i \in 1..Len(labels_new) : labels_new[i] # l)

\* the subject of a relationship event is "<sourceId>/relationships/<relationshipId>"
update_relationship(w, rows_reversed, event_body, event_subject) ==
    IF "patch" \notin DOMAIN event_body THEN [ret |-> FALSE, w |-> w]
    ELSE IF event_body.patch = <<>> THEN [ret |-> FALSE, w |-> Raise(w, "IndexError")]
    ELSE IF event_body.patch[1].path # <<"labels">> THEN [ret |-> FALSE, w |-> w]
    ELSE
    LET subject_parts == split(event_subject, "/")
        action == event_body.patch[1]
        labels_new == IF "value" \in DOMAIN action /\ action.value # <<>>
                      THEN split(action.value, ",") ELSE <<>>
        w1 == create_first_missing_label(w, rows_reversed, labels_new)
        labels_old == w.relationships[subject_parts[3]].labels
        labels_add == labels_to_add(labels_old, labels_new)
        labels_remove == labels_to_remove(labels_old, labels_new)
    IN IF Len(subject_parts) # 3 \/ subject_parts[2] # RELATIONSHIPS
         THEN [ret |-> FALSE, w |-> w]
       ELSE IF w1.error # "" THEN [ret |-> FALSE, w |-> w1]
       ELSE IF subject_parts[3] \notin DOMAIN w.relationships
         THEN [ret |-> FALSE, w |-> Raise(w1, "AttributeError")]
       ELSE IF labels_add # <<>> \/ labels_remove # <<>>
         THEN [ret |-> TRUE,
               w |-> relationships_update_labels(w1, subject_parts[3], labels_add,
                                                 labels_remove)]
       ELSE [ret |-> TRUE, w |-> w1]

-----------------------------------------------------------------------------
(* ADT2CDF: dispatch *)

handle_asset(w, twins, event_representation) ==
    IF event_representation.type = "Create"
    THEN create_asset(w, event_adt_id(event_representation), event_representation.body)
    ELSE IF event_representation.type = "Update"
    THEN update_asset(w, twins, event_adt_id(event_representation),
                      event_representation.body)
    ELSE delete_asset(w, event_adt_id(event_representation))

handle_timeseries(w, twins, event_representation) ==
    IF event_representation.type = "Create"
    THEN create_timeseries(w, event_adt_id(event_representation), event_representation.body)
    ELSE IF event_representation.type = "Update"
    THEN ADT2CDF_update_timeseries(w, twins, event_adt_id(event_representation),
                                   event_representation.body)
    ELSE ADT2CDF_delete_timeseries(w, event_adt_id(event_representation))

\* the endpoints are resolved in advance for Create and Delete
handle_relationship(w, twins, rels, rows_reversed, event_representation) ==
    LET rel_endpoints == get_rel_endpoints(w, twins, event_representation.body)
    IN IF event_representation.type = "Update"
         THEN update_relationship(w, rows_reversed, event_representation.body,
                                  event_representation.subject)
       ELSE IF ~rel_endpoints.found THEN [ret |-> FALSE, w |-> w]
       ELSE IF event_representation.type = "Create"
         THEN create_relationship(w, rels, event_representation.body,
                                  rel_endpoints.source, rel_endpoints.target)
       ELSE delete_relationship(w, twins, rels, rows_reversed, event_representation.body,
                                rel_endpoints.source, rel_endpoints.target)

\* the dispatch on the resource in the loop of handle; an attribute that parse_event
\* did not set cannot be read
dispatch(w, twins, rels, rows_reversed, event_representation) ==
    IF "resource" \notin DOMAIN event_representation
      THEN [ret |-> FALSE, w |-> Raise(w, "AttributeError")]
    ELSE IF event_representation.resource = "asset"
      THEN handle_asset(w, twins, event_representation)
    ELSE IF event_representation.resource = "relationship"
      THEN handle_relationship(w, twins, rels, rows_reversed, event_representation)
    ELSE IF event_representation.resource = "timeseries"
      THEN handle_timeseries(w, twins, event_representation)
    ELSE [ret |-> FALSE, w |-> w]

\* parse_event: the cloud event type "Microsoft.DigitalTwins.<kind>.<op>" is held
\* as kind and op, the model id body['$metadata']['$model'] of a twin as body.model.
\* The result is <<>> (None) after a ValueError (a type that is not of the enum) or a
\* KeyError (no subject in the metadata, no model in the body); the representation
\* has no resource when the model is neither the asset nor the time series model.
parse_event(ev) ==
    IF ev.kind \notin {"Twin", "Relationship"} \/ ev.op \notin {"Create", "Update", "Delete"}
      THEN <<>>
    ELSE IF "subject" \notin DOMAIN ev THEN <<>>
    ELSE IF ev.kind = "Twin" /\ ev.op \in {"Create", "Delete"} /\ "model" \notin DOMAIN ev.body
      THEN <<>>
    ELSE IF ev.kind = "Twin" /\ ev.op = "Update" /\ "modelId" \notin DOMAIN ev.body
      THEN <<>>
    ELSE LET model == IF ev.kind # "Twin" THEN None
                      ELSE IF ev.op = "Update" THEN ev.body.modelId ELSE ev.body.model
         IN [type |-> ev.op, subject |-> ev.subject, body |-> ev.body]
            @@ (IF ev.kind = "Relationship" THEN [resource |-> "relationship"]
                ELSE IF model = ASSET THEN [resource |-> "asset"]
                ELSE IF model = TIMESERIES THEN [resource |-> "timeseries"]
                ELSE <<>>)

\* a bug lengths_match could have: the lengths are not compared
lengths_match_always(n_events, n_metadata) == TRUE

\* len(metadata) == len(events)
lengths_match(n_events, n_metadata) == n_metadata = n_events

\* the body of the loop of handle after the comparison of the lengths: the attribute
\* type of None cannot be read.  (The test of the type against Create, Update and
\* Delete that follows cannot fail: parse_event sets no other type.)
handle_event(w, twins, rels, rows_reversed, ev) ==
    LET event_representation == parse_event(ev)
    IN IF "type" \notin DOMAIN event_representation
       THEN [ret |-> FALSE, w |-> Raise(w, "AttributeError")]
       ELSE dispatch(w, twins, rels, rows_reversed, event_representation)

-----------------------------------------------------------------------------
(* ADT2CDF: the batches of events and the graphs they meet *)

MaxEvents == 2
\* the lookups that can still return a time series after its delete
MaxLag == 2

TwinA == <<"A">>
TwinB == <<"B", "*">>       \* the twin of the asset with external id "B:"
TwinT == <<"T">>
ExtB == <<"B", ":">>

Restrict(f, S) == [x \in S |-> f[x]]

\* the body of a twin event: '$dtId', '$metadata'.'$model', 'tags' always, the rest
\* as the twin has it
TwinBody(dtId, model, externalId, keys) ==
    Restrict([dtId        |-> dtId,
              model       |-> model,
              externalId  |-> externalId,
              displayName |-> <<"P", "1">>,
              description |-> "d1",
              latestValue |-> "1.5",
              timestamp   |-> 1,
              tags        |-> IF "values" \in keys
                              THEN [values |-> <<[k |-> <<"P">>, v |-> "10"]>>]
                              ELSE <<>>],
             {"dtId", "model", "tags"} \cup (keys \ {"values"}))

TwinShapes ==
    { {}, {"displayName"}, {"description", "values"}, {"displayName", "description", "values"} }

\* a Delete carries the twin as it was; the handlers read its ids only, so one shape
\* of the body stands for all
DeleteShapes == { {"displayName"} }

AssetEventsOf(op, shapes) ==
    { [kind |-> "Twin", op |-> op, subject |-> t[1],
       body |-> TwinBody(t[1], ASSET, t[2], shape \cup ext)] :
        t \in { <<TwinA, <<>>>>, <<TwinB, ExtB>> },
        shape \in shapes,
        ext \in { {}, {"externalId"} } }

AssetEvents == AssetEventsOf("Create", TwinShapes) \cup AssetEventsOf("Delete", DeleteShapes)

TimeseriesEvents ==
    { [kind |-> "Twin", op |-> "Create", subject |-> TwinT,
       body |-> [TwinBody(TwinT, TIMESERIES, TwinT,
                          shape \cup {"externalId"} \cup
                          (IF latest = "" THEN {} ELSE {"latestValue", "timestamp"}))
                 EXCEPT !.latestValue = latest]] :
        shape \in { {}, {"displayName", "description", "values"} },
        latest \in { "1.5", "abc" } }
    \cup
    { [kind |-> "Twin", op |-> op, subject |-> TwinT,
       body |-> TwinBody(TwinT, TIMESERIES, TwinT, {"displayName"})] :
        op \in {"Create", "Delete"} }

Rel(relationshipId, relationshipName, sourceId, targetId) ==
    [relationshipId   |-> relationshipId,
     relationshipName |-> relationshipName,
     sourceId         |-> sourceId,
     targetId         |-> targetId]

\* what the twin graph stores of a relationship
Edge(relationshipId, name, sourceId, targetId) ==
    [relationshipId |-> relationshipId, name |-> name,
     sourceId |-> sourceId, targetId |-> targetId]

RelationshipBodies ==
    { Rel(<<"p", "1">>, "parent", TwinA, ROOT_EXTERNAL_ID),
      Rel(<<"p", "2">>, "parent", TwinA, TwinB),
      Rel(<<"p", "3">>, "parent", TwinB, TwinA),
      Rel(<<"c", "1">>, "contains", TwinA, TwinT),
      Rel(<<"c", "2">>, "contains", TwinB, TwinT),
      Rel(<<"r", "1">>, "relatesTo", TwinA, TwinB),
      Rel(<<"r", "1">>, "relatesTo", TwinA, TwinB) @@ [labels |-> <<"L">>],
      Rel(<<"r", "2">>, "relatesTo", TwinB, TwinA) @@ [labels |-> <<"L", ",", "M">>],
      Rel(<<"x", "1">>, "feeds", TwinA, TwinB) }

RelationshipEvents ==
    { [kind |-> "Relationship", op |-> "Create", subject |-> b.relationshipId, body |-> b] :
        b \in RelationshipBodies }

Events == AssetEvents \cup TimeseriesEvents \cup RelationshipEvents

\* the root has no parent: parent_external_id is the empty id
CdfAsset(external_id, id, parent_external_id) ==
    [external_id |-> external_id, id |-> id, name |-> <<"n">>, description |-> None,
     metadata |-> None, parent_external_id |-> parent_external_id]

\* the Asset Graphs a batch can meet: without the root, the root alone, a hierarchy
IncCdfs ==
    { [assets |-> <<>>, timeseries |-> <<>>, labels |-> {}, next_id |-> 1],
      [assets |-> (ROOT_EXTERNAL_ID :> CdfAsset(ROOT_EXTERNAL_ID, 1, <<>>)),
       timeseries |-> <<>>, labels |-> {<<"L">>}, next_id |-> 2],
      [assets |-> (ROOT_EXTERNAL_ID :> CdfAsset(ROOT_EXTERNAL_ID, 1, <<>>))
                  @@ (TwinA :> CdfAsset(TwinA, 2, ROOT_EXTERNAL_ID))
                  @@ (ExtB :> CdfAsset(ExtB, 3, TwinA)),
       timeseries |-> (TwinT :> [external_id |-> TwinT, id |-> 4, name |-> <<"n">>,
                                 description |-> None, metadata |-> None,
                                 asset_id |-> 1, is_string |-> FALSE]),
       labels |-> {<<"L">>, <<"M", "1">>}, next_id |-> 5] }

IncTwin(model, externalId) == [model |-> model, externalId |-> externalId]

IncTwins ==
    { (ROOT_EXTERNAL_ID :> IncTwin(ASSET, ROOT_EXTERNAL_ID))
        @@ (TwinA :> IncTwin(ASSET, TwinA))
        @@ (TwinB :> IncTwin(ASSET, ExtB))
        @@ (TwinT :> IncTwin(TIMESERIES, TwinT)),
      (ROOT_EXTERNAL_ID :> IncTwin(ASSET, ROOT_EXTERNAL_ID))
        @@ (TwinA :> IncTwin(ASSET, TwinA))
        @@ (TwinB :> [model |-> ASSET]) }

\* the relationships the Twin Graph can hold while a batch is processed
IncEdges ==
    LET p1 == Edge(<<"p", "1">>, "parent", TwinA, ROOT_EXTERNAL_ID)
        p2 == Edge(<<"p", "2">>, "parent", TwinA, TwinB)
        c1 == Edge(<<"c", "1">>, "contains", TwinA, TwinT)
        c2 == Edge(<<"c", "2">>, "contains", TwinB, TwinT)
    IN { {}, {p1}, {p2}, {p1, p2}, {c1}, {c2, p1}, {c1, c2, p1, p2} }

IncInit ==
    /\ \E c \in IncCdfs :
        /\ cdf_assets = c.assets
        /\ cdf_timeseries = c.timeseries
        /\ cdf_labels = c.labels
        /\ cdf_next_id = c.next_id
        /\ cdf_lag = 0
    /\ cdf_datapoints = <<>>
    /\ cdf_relationships = <<>>
    /\ adt_twins \in IncTwins
    /\ adt_rels \in IncEdges
    /\ inc_pc = "start"
    /\ pool = "twins"
    /\ events_len \in 0..MaxEvents
    /\ metadata_len = events_len
    /\ eventIndex = 0
    /\ event = NoEvent
    /\ redelivered = FALSE
    /\ calls = <<>>
    /\ result = FALSE
    /\ before = <<>>
    /\ DiffIdle /\ QueryIdle /\ SyncIdle

\* events that parse, and events that do not: a cloud event type that is not of the
\* enum, metadata without the subject, a body without the model; and a twin of a
\* model that is neither the asset nor the time series model
ParseEvents ==
    LET good == [kind |-> "Twin", op |-> "Create", subject |-> TwinA,
                 body |-> TwinBody(TwinA, ASSET, <<>>, {"displayName"})]
    IN { good,
         [good EXCEPT !.op = "Delete"],
         [good EXCEPT !.op = "Command"],
         [good EXCEPT !.kind = "Model"],
         Restrict(good, {"kind", "op", "body"}),
         [good EXCEPT !.body = Restrict(@, {"dtId", "displayName", "tags"})],
         [good EXCEPT !.body.model = "dtmi:example:Room;1"] }

\* the patches of the Update events: ops whose value is the value the node has or
\* another one, removes, ops on the immutable ids alone and before other ops, and
\* the latest value with its timestamp
UpdatePatches ==
    LET name1 == PatchOp("replace", <<"displayName">>, <<"P", "1">>)
        name2 == PatchOp("replace", <<"displayName">>, <<"P", "2">>)
        key1  == PatchOp("add", <<"tags", "values", <<"P">>>>, "10")
        key2  == PatchOp("replace", <<"tags", "values", <<"P">>>>, "11")
        ext   == PatchOp("replace", <<"externalId">>, <<"Z">>)
    IN << <<>>,
         <<name1>>, <<name2>>,
         <<PatchOp("add", <<"description">>, "d1")>>,
         <<RemoveOp(<<"description">>)>>,
         <<PatchOp("add", <<"tags", "values">>, <<>>)>>,
         <<key1>>, <<key2>>,
         <<RemoveOp(<<"tags", "values", <<"P">>>>)>>,
         <<ext>>,
         <<PatchOp("add", <<"externalId">>, TwinA)>>,
         <<RemoveOp(<<"externalId">>)>>,
         <<RemoveOp(<<"id">>), PatchOp("add", <<"id">>, "2")>>,
         <<ext, name2>>,
         <<RemoveOp(<<"id">>), key2>> >>

DatapointPatches ==
    << <<PatchOp("replace", <<"latestValue">>, "2.5"),
         PatchOp("replace", <<"timestamp">>, 2)>>,
       <<PatchOp("replace", <<"latestValue">>, "abc"),
         PatchOp("replace", <<"timestamp">>, 2)>> >>

UpdateEventOf(subject, modelId, patch) ==
    [kind |-> "Twin", op |-> "Update", subject |-> subject,
     body |-> [modelId |-> modelId, patch |-> patch]]

\* the Update events: every patch for the twins A, B* and T, the datapoint patches
\* for T, and an Update of a twin that does not exist
UpdateEvents ==
    [i \in 1..Len(UpdatePatches) |-> UpdateEventOf(TwinA, ASSET, UpdatePatches[i])]
    \o [i \in 1..Len(UpdatePatches) |-> UpdateEventOf(TwinB, ASSET, UpdatePatches[i])]
    \o [i \in 1..Len(UpdatePatches) |-> UpdateEventOf(TwinT, TIMESERIES, UpdatePatches[i])]
    \o [i \in 1..Len(DatapointPatches) |->
           UpdateEventOf(TwinT, TIMESERIES, DatapointPatches[i])]
    \o <<UpdateEventOf(<<"Z">>, ASSET, <<>>)>>

TwinC == <<"C">>
TwinQ == <<"Q">>       \* a twin id the Asset Graph and the Twin Graph do not know

\* the relationships of the relationship events: parent and contains relationships
\* between the twins A, B*, C, the root and T, relatesTo relationships, a relationship
\* of another name, and relationships with an endpoint that cannot be resolved
RelationshipList ==
    << Rel(<<"p", "1">>, "parent", TwinA, ROOT_EXTERNAL_ID),
       Rel(<<"p", "3">>, "parent", TwinB, TwinA),
       Rel(<<"p", "4">>, "parent", TwinB, ROOT_EXTERNAL_ID),
       Rel(<<"c", "1">>, "contains", TwinA, TwinT),
       Rel(<<"c", "2">>, "contains", TwinB, TwinT),
       Rel(<<"c", "3">>, "contains", TwinC, TwinT),
       Rel(<<"r", "1">>, "relatesTo", TwinA, TwinC) @@ [labels |-> <<"L">>],
       Rel(<<"r", "2">>, "relatesTo", TwinA, TwinB),
       Rel(<<"x", "1">>, "feeds", TwinA, TwinC),
       Rel(<<"q", "1">>, "parent", TwinQ, ROOT_EXTERNAL_ID),
       Rel(<<"q", "2">>, "contains", TwinA, TwinQ),
       Rel(<<"q", "3">>, "relatesTo", TwinA, TwinQ) >>

RelationshipSubject(sourceId, relationshipId) ==
    sourceId \o <<"/">> \o RELATIONSHIPS \o <<"/">> \o relationshipId

RelationshipEventOf(op, b) ==
    [kind |-> "Relationship", op |-> op,
     subject |-> RelationshipSubject(b.sourceId, b.relationshipId), body |-> b]

\* Create and Delete of every relationship, and two Updates of the labels of r1
RelationshipPool ==
    [i \in 1..Len(RelationshipList) |-> RelationshipEventOf("Create", RelationshipList[i])]
    \o [i \in 1..Len(RelationshipList) |->
           RelationshipEventOf("Delete", RelationshipList[i])]
    \o << [kind |-> "Relationship", op |-> "Update",
           subject |-> RelationshipSubject(TwinA, <<"r", "1">>),
           body |-> [patch |-> <<PatchOp("replace", <<"labels">>, <<"L", ",", "M">>)>>]],
          [kind |-> "Relationship", op |-> "Update",
           subject |-> RelationshipSubject(TwinA, <<"r", "1">>),
           body |-> [patch |-> <<RemoveOp(<<"labels">>)>>]] >>

\* an Update of the labels of the relationship r1 of twin A
LabelsUpdate(subject, patch) ==
    [kind |-> "Relationship", op |-> "Update", subject |-> subject,
     body |-> [patch |-> patch]]

\* the relatesTo events: Updates of the labels of r1 to one, two or no labels, with
\* labels that have no definition, with an improper patch or subject, and Creates
\* and Deletes of relatesTo relationships with and without labels
LabelsPool ==
    LET r1 == RelationshipSubject(TwinA, <<"r", "1">>)
    IN << LabelsUpdate(r1, <<PatchOp("replace", <<"labels">>, <<"L">>)>>),
          LabelsUpdate(r1, <<PatchOp("replace", <<"labels">>, <<"L", ",", "M">>)>>),
          LabelsUpdate(r1, <<PatchOp("replace", <<"labels">>, <<"M">>)>>),
          LabelsUpdate(r1, <<PatchOp("add", <<"labels">>, <<"M", ",", "N">>)>>),
          LabelsUpdate(r1, <<PatchOp("replace", <<"labels">>, <<>>)>>),
          LabelsUpdate(r1, <<RemoveOp(<<"labels">>)>>),
          LabelsUpdate(r1, <<PatchOp("replace", <<"displayName">>, <<"L">>)>>),
          LabelsUpdate(TwinA \o <<"/">> \o <<"r", "1">>,
                       <<PatchOp("replace", <<"labels">>, <<"M">>)>>),
          RelationshipEventOf("Create",
              Rel(<<"r", "1">>, "relatesTo", TwinA, TwinC) @@ [labels |-> <<"L">>]),
          RelationshipEventOf("Create",
              Rel(<<"r", "2">>, "relatesTo", TwinA, TwinB) @@ [labels |-> <<"L", ",", "M">>]),
          RelationshipEventOf("Create",
              Rel(<<"r", "3">>, "relatesTo", TwinC, TwinA) @@ [labels |-> <<>>]),
          RelationshipEventOf("Create", Rel(<<"r", "4">>, "relatesTo", TwinC, TwinB)),
          RelationshipEventOf("Delete",
              Rel(<<"r", "1">>, "relatesTo", TwinA, TwinC) @@ [labels |-> <<"L">>]),
          RelationshipEventOf("Delete", Rel(<<"r", "1">>, "relatesTo", TwinC, TwinA)),
          RelationshipEventOf("Delete", Rel(<<"r", "2">>, "relatesTo", TwinA, TwinB)) >>

\* the Updates of the time series T that carry a latest value: a number or a text,
\* with a timestamp later or not later than the datapoint the series has, alone or
\* together with an op on a field of the series, with the timestamp first, without
\* a timestamp, and with one of the pair removed
LatestValuePatches ==
    LET name2 == PatchOp("replace", <<"displayName">>, <<"P", "2">>)
        value(v) == PatchOp("replace", <<"latestValue">>, v)
        time(t) == PatchOp("replace", <<"timestamp">>, t)
    IN << <<value("2.5"), time(2)>>,
          <<value("abc"), time(2)>>,
          <<value("2.5"), time(1)>>,
          <<value("abc"), time(1)>>,
          <<name2, value("2.5"), time(2)>>,
          <<name2, value("abc"), time(2)>>,
          <<PatchOp("add", <<"description">>, "d1"), value("abc"), time(2)>>,
          <<time(3), value("1.5")>>,
          <<value("2.5")>>,
          <<value("2.5"), RemoveOp(<<"timestamp">>)>>,
          <<RemoveOp(<<"latestValue">>), time(2)>>,
          <<name2>> >>

LatestValueEvents ==
    [i \in 1..Len(LatestValuePatches) |->
        UpdateEventOf(TwinT, TIMESERIES, LatestValuePatches[i])]

TwinsEvents == SetToSeq(Events)
ParseEventsSeq == SetToSeq(ParseEvents)

\* the events a batch of the pool is made of, as a sequence
EventsOf(p) ==
    IF p = "twins" THEN TwinsEvents
    ELSE IF p = "parse" THEN ParseEventsSeq
    ELSE IF p = "update" THEN UpdateEvents
    ELSE IF p = "relationships" THEN RelationshipPool
    ELSE IF p = "labels" THEN LabelsPool
    ELSE IF p = "datapoints" THEN LatestValueEvents
    ELSE <<>>

\* ev and the event processed before it are the same event
SameEvent(ev, last) ==
    IF "patch" \in DOMAIN ev.body \/ "patch" \in DOMAIN last.body
    THEN ToString(ev) = ToString(last)
    ELSE ev = last

\* the orders of the rows of a query that matter to the event: only the Delete and
\* the Update of a relationship look at the first row of a list
QueryOrders(ev) ==
    IF ev.kind = "Relationship" /\ ev.op \in {"Delete", "Update"} THEN BOOLEAN ELSE {FALSE}

\* the nodes the Update events meet: the assets A and "B:" and the time series T with
\* the name P1, with or without a description, and with no metadata, empty metadata
\* or one key
UpdateMetadata(i) ==
    IF i = 1 THEN None ELSE IF i = 2 THEN <<>> ELSE <<[k |-> <<"P">>, v |-> "10"]>>

UpdateCdf(d, m) ==
      [assets |-> (ROOT_EXTERNAL_ID :> CdfAsset(ROOT_EXTERNAL_ID, 1, <<>>))
                  @@ (TwinA :> [CdfAsset(TwinA, 2, ROOT_EXTERNAL_ID)
                                EXCEPT !.name = <<"P", "1">>, !.description = d,
                                       !.metadata = m])
                  @@ (ExtB :> [CdfAsset(ExtB, 3, TwinA)
                               EXCEPT !.name = <<"P", "1">>, !.description = d,
                                      !.metadata = m]),
       timeseries |-> (TwinT :> [external_id |-> TwinT, id |-> 4, name |-> <<"P", "1">>,
                                 description |-> d, metadata |-> m,
                                 asset_id |-> 1, is_string |-> FALSE]),
       labels |-> {}, next_id |-> 5]

\* the Asset Graph the relationship events meet: A and C under the root, "B:" under
\* A, the time series T linked to the asset with the internal id link, and the
\* relationship r1 or no relationship
RelationshipCdf(link, with_r1) ==
    [assets |-> (ROOT_EXTERNAL_ID :> CdfAsset(ROOT_EXTERNAL_ID, 1, <<>>))
                @@ (TwinA :> CdfAsset(TwinA, 2, ROOT_EXTERNAL_ID))
                @@ (ExtB :> CdfAsset(ExtB, 3, TwinA))
                @@ (TwinC :> CdfAsset(TwinC, 4, ROOT_EXTERNAL_ID)),
     timeseries |-> (TwinT :> [external_id |-> TwinT, id |-> 5, name |-> <<"n">>,
                               description |-> None, metadata |-> None,
                               asset_id |-> link, is_string |-> FALSE]),
     relationships |-> IF with_r1
                       THEN (<<"r", "1">> :> [external_id        |-> <<"r", "1">>,
                                              source_external_id |-> TwinA,
                                              target_external_id |-> TwinC,
                                              labels             |-> <<<<"L">>>>])
                       ELSE <<>>,
     labels |-> {<<"L">>, <<"L", "2">>}, next_id |-> 6]

\* the twins: B* names its asset "B:" by its externalId, or has no externalId
RelationshipTwins ==
    { (ROOT_EXTERNAL_ID :> IncTwin(ASSET, ROOT_EXTERNAL_ID))
        @@ (TwinA :> IncTwin(ASSET, TwinA))
        @@ (TwinB :> b)
        @@ (TwinC :> IncTwin(ASSET, TwinC))
        @@ (TwinT :> IncTwin(TIMESERIES, TwinT)) :
      b \in { IncTwin(ASSET, ExtB), [model |-> ASSET] } }

\* the relationships the Twin Graph holds while the batch is processed
RelationshipEdges ==
    LET p1 == Edge(<<"p", "1">>, "parent", TwinA, ROOT_EXTERNAL_ID)
        p3 == Edge(<<"p", "3">>, "parent", TwinB, TwinA)
        p4 == Edge(<<"p", "4">>, "parent", TwinB, ROOT_EXTERNAL_ID)
        p5 == Edge(<<"p", "5">>, "parent", TwinB, TwinC)
        c1 == Edge(<<"c", "1">>, "contains", TwinA, TwinT)
        c2 == Edge(<<"c", "2">>, "contains", TwinB, TwinT)
        c3 == Edge(<<"c", "3">>, "contains", TwinC, TwinT)
    IN { {}, {p1, p3, c1}, {p1, p3, c2}, {p1, p4, p5, c2, c3},
         {p1, p3, p4, p5, c1, c2, c3} }

RelationshipInit ==
    /\ \E link \in 1..3, with_r1 \in BOOLEAN :
       LET c == RelationshipCdf(link, with_r1) IN
        /\ cdf_assets = c.assets
        /\ cdf_timeseries = c.timeseries
        /\ cdf_relationships = c.relationships
        /\ cdf_labels = c.labels
        /\ cdf_next_id = c.next_id
        /\ cdf_lag = 0
    /\ cdf_datapoints = <<>>
    /\ adt_twins \in RelationshipTwins
    /\ adt_rels \in RelationshipEdges
    /\ inc_pc = "start"
    /\ pool = "relationships"
    /\ events_len \in 0..MaxEvents
    /\ metadata_len = events_len
    /\ eventIndex = 0
    /\ event = NoEvent
    /\ redelivered = FALSE
    /\ calls = <<>>
    /\ result = FALSE
    /\ before = <<>>
    /\ DiffIdle /\ QueryIdle /\ SyncIdle

\* the label definitions and the labels of r1 the relatesTo events meet: every
\* stored label has a definition
LabelsCdf(i) ==
    LET defs == IF i = 1 THEN {}
                ELSE IF i \in {2, 3} THEN {<<"L">>}
                ELSE IF i = 4 THEN {<<"L">>, <<"L", "2">>}
                ELSE {<<"L">>, <<"M">>}
        stored == IF i \in {1, 2} THEN <<>>
                  ELSE IF i \in {3, 4, 5} THEN <<<<"L">>>>
                  ELSE << <<"L">>, <<"M">> >>
    IN [RelationshipCdf(1, TRUE) EXCEPT !.labels = defs,
                                        !.relationships[<<"r", "1">>].labels = stored]

LabelsInit ==
    /\ \E i \in 1..6 :
       LET c == LabelsCdf(i) IN
        /\ cdf_assets = c.assets
        /\ cdf_timeseries = c.timeseries
        /\ cdf_relationships = c.relationships
        /\ cdf_labels = c.labels
        /\ cdf_next_id = c.next_id
        /\ cdf_lag = 0
    /\ cdf_datapoints = <<>>
    /\ adt_twins = (ROOT_EXTERNAL_ID :> IncTwin(ASSET, ROOT_EXTERNAL_ID))
                   @@ (TwinA :> IncTwin(ASSET, TwinA))
                   @@ (TwinB :> IncTwin(ASSET, ExtB))
                   @@ (TwinC :> IncTwin(ASSET, TwinC))
                   @@ (TwinT :> IncTwin(TIMESERIES, TwinT))
    /\ adt_rels = {}
    /\ inc_pc = "start"
    /\ pool = "labels"
    /\ events_len \in 0..MaxEvents
    /\ metadata_len = events_len
    /\ eventIndex = 0
    /\ event = NoEvent
    /\ redelivered = FALSE
    /\ calls = <<>>
    /\ result = FALSE
    /\ before = <<>>
    /\ DiffIdle /\ QueryIdle /\ SyncIdle

\* the time series T the latest values meet: numeric or string, without a datapoint
\* or with one of its type at the time 1
LatestValueInit ==
    /\ \E is_string \in BOOLEAN, has_datapoint \in BOOLEAN :
       LET c == UpdateCdf(None, <<>>) IN
        /\ cdf_assets = c.assets
        /\ cdf_timeseries = [c.timeseries EXCEPT ![TwinT].is_string = is_string]
        /\ cdf_labels = c.labels
        /\ cdf_next_id = c.next_id
        /\ cdf_lag \in 0..MaxLag
        /\ cdf_datapoints =
              IF has_datapoint
              THEN (TwinT :> [timestamp |-> 1000,
                              value     |-> IF is_string THEN "xyz" ELSE "1.5",
                              is_float  |-> ~is_string])
              ELSE <<>>
    /\ cdf_relationships = <<>>
    /\ adt_twins = (ROOT_EXTERNAL_ID :> IncTwin(ASSET, ROOT_EXTERNAL_ID))
                   @@ (TwinA :> IncTwin(ASSET, TwinA))
                   @@ (TwinB :> IncTwin(ASSET, ExtB))
                   @@ (TwinT :> IncTwin(TIMESERIES, TwinT))
    /\ adt_rels = {}
    /\ inc_pc = "start"
    /\ pool = "datapoints"
    /\ events_len \in 0..MaxEvents
    /\ metadata_len = events_len
    /\ eventIndex = 0
    /\ event = NoEvent
    /\ redelivered = FALSE
    /\ calls = <<>>
    /\ result = FALSE
    /\ before = <<>>
    /\ DiffIdle /\ QueryIdle /\ SyncIdle

UpdateInit ==
    /\ \E d \in {"d1", None}, i \in 1..3 :
       LET c == UpdateCdf(d, UpdateMetadata(i)) IN
        /\ cdf_assets = c.assets
        /\ cdf_timeseries = c.timeseries
        /\ cdf_labels = c.labels
        /\ cdf_next_id = c.next_id
        /\ cdf_lag = 0
    /\ cdf_datapoints = <<>>
    /\ cdf_relationships = <<>>
    /\ adt_twins \in IncTwins
    /\ adt_rels = {}
    /\ inc_pc = "start"
    /\ pool = "update"
    /\ events_len \in 0..MaxEvents
    /\ metadata_len = events_len
    /\ eventIndex = 0
    /\ event = NoEvent
    /\ redelivered = FALSE
    /\ calls = <<>>
    /\ result = FALSE
    /\ before = <<>>
    /\ DiffIdle /\ QueryIdle /\ SyncIdle

\* batches of events that parse or not, with metadata of the same or another length
ParseInit ==
    /\ \E c \in IncCdfs :
        /\ cdf_assets = c.assets
        /\ cdf_timeseries = c.timeseries
        /\ cdf_labels = c.labels
        /\ cdf_next_id = c.next_id
        /\ cdf_lag = 0
    /\ cdf_datapoints = <<>>
    /\ cdf_relationships = <<>>
    /\ adt_twins \in IncTwins
    /\ adt_rels = {}
    /\ inc_pc = "start"
    /\ pool = "parse"
    /\ events_len \in 0..MaxEvents
    /\ metadata_len \in 0..MaxEvents
    /\ eventIndex = 0
    /\ event = NoEvent
    /\ redelivered = FALSE
    /\ calls = <<>>
    /\ result = FALSE
    /\ before = <<>>
    /\ DiffIdle /\ QueryIdle /\ SyncIdle

\* handle up to the loop: the root asset must exist
HandleStart ==
    /\ inc_pc = "start"
    /\ inc_pc' = IF ROOT_EXTERNAL_ID \in DOMAIN cdf_assets THEN "loop" ELSE "returned_none"
    /\ eventIndex' = 0
    /\ UNCHANGED <<cdfVars, adtVars, pool, events_len, metadata_len, event, redelivered,
                   calls, result, before, notIncVars>>

\* one iteration of the loop of handle: a bare return when the lengths differ; an
\* exception of parse_event's caller, of a handler or of a client call ends handle
HandleEvent ==
    /\ inc_pc = "loop"
    /\ eventIndex < events_len
    /\ IF ~lengths_match(events_len, metadata_len)
       THEN /\ inc_pc' = "returned_none"
            /\ UNCHANGED <<cdfVars, eventIndex, event, redelivered, calls, result, before>>
       ELSE LET events == EventsOf(pool) IN
            \E n \in 1..Len(events) :
            \E rows_reversed \in QueryOrders(events[n]) :
        LET ev == events[n]
            r == handle_event(World, adt_twins, adt_rels, rows_reversed, ev)
        IN /\ event' = ev
           /\ redelivered' = (eventIndex > 0 /\ SameEvent(ev, event))
           /\ calls' = r.w.calls
           /\ result' = r.ret
           /\ before' = [assets |-> cdf_assets, timeseries |-> cdf_timeseries,
                         datapoints |-> cdf_datapoints,
                         relationships |-> cdf_relationships,
                         labels |-> cdf_labels, next_id |-> cdf_next_id]
           /\ cdf_assets' = r.w.assets
           /\ cdf_timeseries' = r.w.timeseries
           /\ cdf_datapoints' = r.w.datapoints
           /\ cdf_relationships' = r.w.relationships
           /\ cdf_labels' = r.w.labels
           /\ cdf_next_id' = r.w.next_id
           /\ cdf_lag' = cdf_lag
           /\ inc_pc' = IF r.w.error = "" THEN "loop" ELSE "raised"
           /\ eventIndex' = IF r.w.error = "" THEN eventIndex + 1 ELSE eventIndex
    /\ UNCHANGED <<adtVars, pool, events_len, metadata_len, notIncVars>>

\* return eventIndex
HandleReturn ==
    /\ inc_pc = "loop"
    /\ eventIndex = events_len
    /\ inc_pc' = "returned"
    /\ UNCHANGED <<cdfVars, adtVars, pool, events_len, metadata_len, eventIndex, event,
                   redelivered, calls, result, before, notIncVars>>

-----------------------------------------------------------------------------
(* The Twin Graph (ADT) as CDF2ADT sees it through adt_client.  A graph g   *)
(* is a record of the twins, the relationships and the exception that      *)
(* ended the pass (error, "" when none).  A relationship is identified by  *)
(* its source twin and its relationship id.                                *)

Graph == [twins |-> adt_twins, rels |-> adt_rels, error |-> "", log |-> <<>>]

Fail(g, e) == [g EXCEPT !.error = e]

\* a call of adt_client as g.log keeps it: the twin id it addresses, the relationship
\* id and the target id when it has them (<<>> otherwise), and the number of
\* relationships the addressed twin has when the call is made
Call(g, api, id, rel, target) ==
    [api |-> api, id |-> id, rel |-> rel, target |-> target,
     left |-> Cardinality({ r \in g.rels : r.sourceId = id \/ r.targetId = id })]

Issued(g, api, id, rel, target) ==
    [g EXCEPT !.log = Append(@, Call(g, api, id, rel, target))]

Outgoing(g, id) == { r \in g.rels : r.sourceId = id }
Incoming(g, id) == { r \in g.rels : r.targetId = id }

\* adt_client.upsert_digital_twin: creates the twin or replaces it
upsert_digital_twin(g, digital_twin_id, twin) ==
    [Issued(g, "upsert_digital_twin", digital_twin_id, <<>>, <<>>)
        EXCEPT !.twins = (digital_twin_id :> twin) @@ @]

\* adt_client.delete_digital_twin: the service refuses while relationships remain
delete_digital_twin(g, digital_twin_id) ==
    LET h == Issued(g, "delete_digital_twin", digital_twin_id, <<>>, <<>>)
    IN IF digital_twin_id \notin DOMAIN g.twins THEN Fail(h, "ResourceNotFoundError")
       ELSE IF Outgoing(g, digital_twin_id) \cup Incoming(g, digital_twin_id) # {}
         THEN Fail(h, "HttpResponseError")
       ELSE [h EXCEPT !.twins = Without(@, digital_twin_id)]

\* adt_client.delete_relationship(source, relationship_id)
adt_delete_relationship(g, sourceId, relationshipId) ==
    LET hit == { r \in g.rels : r.sourceId = sourceId /\ r.relationshipId = relationshipId }
        h == Issued(g, "delete_relationship", sourceId, relationshipId, <<>>)
    IN IF hit = {} THEN Fail(h, "ResourceNotFoundError")
       ELSE [h EXCEPT !.rels = @ \ hit]

\* adt_client.upsert_relationship: both twins must exist
upsert_relationship(g, sourceId, relationshipId, rel) ==
    LET h == Issued(g, "upsert_relationship", sourceId, relationshipId, rel.targetId)
    IN IF sourceId \notin DOMAIN g.twins \/ rel.targetId \notin DOMAIN g.twins
       THEN Fail(h, "HttpResponseError")
       ELSE [h EXCEPT !.rels =
                { r \in @ : ~(r.sourceId = sourceId /\ r.relationshipId = relationshipId) }
                \cup { rel @@ [sourceId |-> sourceId] }]

\* what patch_twin gives when the service rejects the operation
Rejected == [rejected |-> TRUE]

\* one operation of a JSON patch on a twin
patch_twin(twin, action) ==
    LET path == action.path
        has_values == "values" \in DOMAIN twin.tags
        present == IF Len(path) = 1 THEN path[1] \in DOMAIN twin
                   ELSE IF Len(path) = 2 THEN has_values
                   ELSE has_values /\ DictHas(twin.tags.values, path[3])
        parent == Len(path) < 3 \/ has_values
        set(v) == IF Len(path) = 1 THEN (path[1] :> v) @@ twin
                  ELSE IF Len(path) = 2 THEN [twin EXCEPT !.tags = [values |-> v]]
                  ELSE [twin EXCEPT !.tags = [values |-> DictSet(twin.tags.values, path[3], v)]]
        unset == IF Len(path) = 1 THEN Without(twin, path[1])
                 ELSE IF Len(path) = 2 THEN [twin EXCEPT !.tags = <<>>]
                 ELSE [twin EXCEPT !.tags = [values |-> DictDel(twin.tags.values, path[3])]]
    IN IF action.op = "add" THEN (IF parent THEN set(action.value) ELSE Rejected)
       ELSE IF action.op = "replace" THEN (IF present THEN set(action.value) ELSE Rejected)
       ELSE (IF present THEN unset ELSE Rejected)

RECURSIVE patch_twin_all(_, _)
patch_twin_all(twin, patch) ==
    IF patch = <<>> \/ twin = Rejected THEN twin
    ELSE patch_twin_all(patch_twin(twin, Head(patch)), Tail(patch))

\* adt_client.update_digital_twin(id, json_patch): all operations or none
update_digital_twin(g, digital_twin_id, json_patch) ==
    LET h == Issued(g, "update_digital_twin", digital_twin_id, <<>>, <<>>)
    IN IF digital_twin_id \notin DOMAIN g.twins THEN Fail(h, "ResourceNotFoundError")
       ELSE LET twin == patch_twin_all(g.twins[digital_twin_id], json_patch)
            IN IF twin = Rejected THEN Fail(h, "HttpResponseError")
               ELSE [h EXCEPT !.twins[digital_twin_id] = twin]

\* adt_client.update_relationship(source, relationship_id, json_patch) on /labels
adt_update_relationship(g, sourceId, relationshipId, json_patch) ==
    LET hit == { r \in g.rels : r.sourceId = sourceId /\ r.relationshipId = relationshipId }
        r == CHOOSE x \in hit : TRUE
        action == json_patch[1]
        h == Issued(g, "update_relationship", sourceId, relationshipId, <<>>)
    IN IF hit = {} THEN Fail(h, "ResourceNotFoundError")
       ELSE IF action.op = "add"
         THEN [h EXCEPT !.rels = (@ \ hit) \cup { ("labels" :> action.value) @@ r }]
       ELSE IF "labels" \notin DOMAIN r THEN Fail(h, "HttpResponseError")
       ELSE IF action.op = "replace"
         THEN [h EXCEPT !.rels = (@ \ hit) \cup { [r EXCEPT !.labels = action.value] }]
       ELSE [h EXCEPT !.rels = (@ \ hit) \cup { Without(r, "labels") }]

\* sourceId + '->' + targetId
arrow_id(sourceId, targetId) == sourceId \o <<"-", ">">> \o targetId

\* rel_id and labels are <<>> when not given
insert_adt_relationship(g, sourceId, targetId, rel_name, rel_id, labels) ==
    IF rel_name \notin {"parent", "contains", "relatesTo"} THEN Fail(g, "ValueError")
    ELSE LET id == IF rel_id = <<>> THEN arrow_id(sourceId, targetId) ELSE rel_id
             temp_rel == [relationshipId |-> id, name |-> rel_name, targetId |-> targetId]
         IN upsert_relationship(g, sourceId, id,
                IF labels # <<>> THEN temp_rel @@ [labels |-> labels] ELSE temp_rel)

-----------------------------------------------------------------------------
(* CDF2ADT: the functions of a pass.  w is the Asset Graph (read only), g    *)
(* the Twin Graph; each gives the Twin Graph it leaves, with g.error set    *)
(* when an exception ended it.                                             *)

\* cdf_client.assets.retrieve_subtree(external_id=root): the root first, then level
\* by level
RECURSIVE subtree_levels(_, _, _)
subtree_levels(assets, level, fuel) ==
    IF level = {} \/ fuel = 0 THEN <<>>
    ELSE SetToSeq(level)
         \o subtree_levels(assets,
                { x \in DOMAIN assets : assets[x].parent_external_id \in level }, fuel - 1)

retrieve_subtree(w, external_id) ==
    LET ids == subtree_levels(w.assets, {external_id}, Cardinality(DOMAIN w.assets))
    IN [j \in 1..Len(ids) |-> w.assets[ids[j]]]

\* cdf_client.relationships.list(source_external_ids=ids, target_external_ids=ids,
\*                               last_updated_time={'min': min_time})
relationships_list(w, ids, min_time) ==
    SetToSeq({ w.relationships[x] : x \in
               { y \in DOMAIN w.relationships :
                   /\ w.relationships[y].source_external_id \in ids
                   /\ w.relationships[y].target_external_id \in ids
                   /\ w.relationships[y].last_updated_time >= min_time } })

\* cdf_client.time_series.list(asset_external_ids=[external_id])
time_series_list(w, external_id) ==
    IF external_id \notin DOMAIN w.assets THEN <<>>
    ELSE SetToSeq({ w.timeseries[x] : x \in
                    { y \in DOMAIN w.timeseries :
                        w.timeseries[y].asset_id = w.assets[external_id].id } })

\* ','.join(labels)
RECURSIVE join(_, _)
join(sep, l) ==
    IF l = <<>> THEN <<>>
    ELSE IF Len(l) = 1 THEN l[1]
    ELSE l[1] \o <<sep>> \o join(sep, Tail(l))

external_ids(resources) == [j \in 1..Len(resources) |-> resources[j].external_id]

\* a bug converted_ids could have: the external ids are taken as they are
converted_ids_raw(resources) == [j \in 1..Len(resources) |-> resources[j].external_id]

converted_ids(resources) ==
    [j \in 1..Len(resources) |-> convert_ext_id(resources[j].external_id)]

\* a bug create_twin could have: the twin is made without its parent relationship
create_twin_alone(g, a) ==
    upsert_digital_twin(g, convert_ext_id(a.external_id), get_twin_dict(a, ASSET))

create_twin(g, a) ==
    LET ext_id == convert_ext_id(a.external_id)
        parent_ext_id == convert_ext_id(a.parent_external_id)
        g1 == upsert_digital_twin(g, ext_id, get_twin_dict(a, ASSET))
    IN IF a.parent_external_id # <<>>
       THEN insert_adt_relationship(g1, ext_id, parent_ext_id, "parent", <<>>, <<>>)
       ELSE g1

RECURSIVE insert_assets(_, _)
insert_assets(g, assets) ==
    IF assets = <<>> \/ g.error # "" THEN g
    ELSE insert_assets(create_twin(g, Head(assets)), Tail(assets))

RECURSIVE insert_relationships_from(_, _)
insert_relationships_from(g, rel_list) ==
    IF rel_list = <<>> \/ g.error # "" THEN g
    ELSE LET rel == Head(rel_list)
         IN insert_relationships_from(
                insert_adt_relationship(g, convert_ext_id(rel.source_external_id),
                    convert_ext_id(rel.target_external_id), "relatesTo", rel.external_id,
                    join(",", rel.labels)),
                Tail(rel_list))

insert_asset_to_asset_relationships(w, g, assets) ==
    insert_relationships_from(g, relationships_list(w, SeqToSet(external_ids(assets)), 0))

\* the twin of a time series with its latest datapoint, when it has one; the
\* timestamp is kept in milliseconds
timeseries_twin(w, t) ==
    LET temp_twin == get_twin_dict(t, TIMESERIES)
    IN IF t.external_id \in DOMAIN w.datapoints
       THEN temp_twin @@ [latestValue |-> w.datapoints[t.external_id].value,
                          timestamp   |-> w.datapoints[t.external_id].timestamp]
       ELSE temp_twin

\* a bug insert_timeseries_twin could have: the twin is made without its contains
\* relationship
insert_timeseries_twin_unlinked(w, g, asset_ext_id, t) ==
    upsert_digital_twin(g, convert_ext_id(t.external_id), timeseries_twin(w, t))

\* the except branch of update_timeseries, the loop body of insert_timeseries
insert_timeseries_twin(w, g, asset_ext_id, t) ==
    insert_adt_relationship(
        upsert_digital_twin(g, convert_ext_id(t.external_id), timeseries_twin(w, t)),
        asset_ext_id, convert_ext_id(t.external_id), "contains", <<>>, <<>>)

RECURSIVE insert_timeseries_of(_, _, _, _)
insert_timeseries_of(w, g, asset_ext_id, ts_list) ==
    IF ts_list = <<>> \/ g.error # "" THEN g
    ELSE insert_timeseries_of(w, insert_timeseries_twin(w, g, asset_ext_id, Head(ts_list)),
                              asset_ext_id, Tail(ts_list))

RECURSIVE insert_timeseries(_, _, _)
insert_timeseries(w, g, assets) ==
    IF assets = <<>> \/ g.error # "" THEN g
    ELSE insert_timeseries(w,
             insert_timeseries_of(w, g, convert_ext_id(Head(assets).external_id),
                                  time_series_list(w, Head(assets).external_id)),
             Tail(assets))

\* the loop body of update_assets
update_assets_body(g, a) ==
    LET ext_id == convert_ext_id(a.external_id)
        parent_ext_id == convert_ext_id(a.parent_external_id)
    IN
    IF ext_id \notin DOMAIN g.twins THEN create_twin(g, a)
    ELSE LET update_patches == get_update_patches(a, g.twins[ext_id])
             g1 == IF update_patches # <<>>
                   THEN update_digital_twin(g, ext_id, update_patches) ELSE g
             parents == { r \in Outgoing(g1, ext_id) : r.name = "parent" }
             rela == CHOOSE r \in parents : TRUE
         IN IF g1.error # "" \/ parent_ext_id = <<>> \/ parents = {} THEN g1
            ELSE IF rela.targetId # parent_ext_id
              THEN LET g2 == adt_delete_relationship(g1, ext_id, rela.relationshipId)
                   IN IF g2.error # "" THEN g2
                      ELSE insert_adt_relationship(g2, ext_id, parent_ext_id, "parent",
                                                   <<>>, <<>>)
            ELSE g1

RECURSIVE update_assets(_, _)
update_assets(g, assets) ==
    IF assets = <<>> \/ g.error # "" THEN g
    ELSE update_assets(update_assets_body(g, Head(assets)), Tail(assets))

\* list(filter(lambda x: x.last_updated_time > sync_ts*1000, asset_list))
RECURSIVE modified_since(_, _)
modified_since(assets, ts) ==
    IF assets = <<>> THEN <<>>
    ELSE (IF Head(assets).last_updated_time > ts * 1000 THEN <<Head(assets)>> ELSE <<>>)
         \o modified_since(Tail(assets), ts)

\* the first row of rel_list_adt for the relationship id; <<>> when there is none
first_row(rel_list_adt, relationshipId) ==
    LET hits == { j \in 1..Len(rel_list_adt) :
                    rel_list_adt[j].R.relationshipId = relationshipId }
    IN IF hits = {} THEN <<>>
       ELSE <<rel_list_adt[CHOOSE j \in hits : \A l \in hits : j <= l].R>>

\* the patch of the labels property of a relationship
labels_patches(labels, rela) ==
    IF labels # <<>>
    THEN IF "labels" \notin DOMAIN rela THEN <<PatchOp("add", <<"labels">>, labels)>>
         ELSE IF labels # rela.labels THEN <<PatchOp("replace", <<"labels">>, labels)>>
         ELSE <<>>
    ELSE IF "labels" \in DOMAIN rela THEN <<RemoveOp(<<"labels">>)>>
    ELSE <<>>

\* a bug update_relationships_body could have: the relationship is upserted whatever
\* the Twin Graph holds
update_relationships_body_upsert(g, rel_list_adt, rel) ==
    insert_adt_relationship(g, convert_ext_id(rel.source_external_id),
                            convert_ext_id(rel.target_external_id), "relatesTo",
                            rel.external_id, join(",", rel.labels))

\* the loop body of update_asset_to_asset_relationships
update_relationships_body(g, rel_list_adt, rel) ==
    LET source_ext_id == convert_ext_id(rel.source_external_id)
        target_ext_id == convert_ext_id(rel.target_external_id)
        labels == join(",", rel.labels)
        found == first_row(rel_list_adt, rel.external_id)
        rela == found[1]
    IN IF found = <<>>
       THEN insert_adt_relationship(g, source_ext_id, target_ext_id, "relatesTo",
                                    rel.external_id, labels)
       ELSE IF target_ext_id # rela.targetId \/ source_ext_id # rela.sourceId
       THEN LET g1 == adt_delete_relationship(g, rela.sourceId, rela.relationshipId)
            IN IF g1.error # "" THEN g1
               ELSE insert_adt_relationship(g1, source_ext_id, target_ext_id, "relatesTo",
                                            rel.external_id, labels)
       ELSE IF labels_patches(labels, rela) # <<>>
       THEN adt_update_relationship(g, rel.source_external_id, rel.external_id,
                                    labels_patches(labels, rela))
       ELSE g

RECURSIVE update_relationships_from(_, _, _)
update_relationships_from(g, rel_list_adt, rel_list_cdf) ==
    IF rel_list_cdf = <<>> \/ g.error # "" THEN g
    ELSE update_relationships_from(
             update_relationships_body(g, rel_list_adt, Head(rel_list_cdf)),
             rel_list_adt, Tail(rel_list_cdf))

update_asset_to_asset_relationships(w, g, assets, ts) ==
    LET rel_list_cdf == relationships_list(w, SeqToSet(external_ids(assets)), ts * 1000)
    IN IF rel_list_cdf = <<>> THEN g
       ELSE update_relationships_from(g,
                query_adt_batches(g.rels, "relatesTo", converted_ids(assets)), rel_list_cdf)

\* a bug datapoint_patches could have: a datapoint as late as the twin's is patched in
datapoint_patches_again(w, t, dt) ==
    LET datapoint == w.datapoints[t.external_id]
        dt_timestamp == IF "timestamp" \in DOMAIN dt THEN dt.timestamp ELSE 0
    IN IF t.external_id \in DOMAIN w.datapoints
          /\ (datapoint.value # dt.latestValue \/ datapoint.timestamp >= dt_timestamp)
       THEN <<PatchOp("replace", <<"latestValue">>, datapoint.value),
              PatchOp("replace", <<"timestamp">>, datapoint.timestamp)>>
       ELSE <<>>

\* the patches of the latest datapoint; dt['latestValue'] must be there
datapoint_patches(w, t, dt) ==
    LET datapoint == w.datapoints[t.external_id]
        dt_timestamp == IF "timestamp" \in DOMAIN dt THEN dt.timestamp ELSE 0
    IN IF t.external_id \in DOMAIN w.datapoints
          /\ (datapoint.value # dt.latestValue \/ datapoint.timestamp > dt_timestamp)
       THEN <<PatchOp("replace", <<"latestValue">>, datapoint.value),
              PatchOp("replace", <<"timestamp">>, datapoint.timestamp)>>
       ELSE <<>>

\* the loop body of update_timeseries for one time series of one asset
update_timeseries_body(w, g, asset_ext_id, t, ts) ==
    LET ext_id == convert_ext_id(t.external_id)
        dt == g.twins[ext_id]
    IN
    IF ext_id \notin DOMAIN g.twins THEN insert_timeseries_twin(w, g, asset_ext_id, t)
    ELSE IF t.external_id \in DOMAIN w.datapoints /\ "latestValue" \notin DOMAIN dt
      THEN Fail(g, "KeyError")
    ELSE LET update_patches == get_update_patches(t, dt) \o datapoint_patches(w, t, dt)
             g1 == IF update_patches # <<>>
                   THEN update_digital_twin(g, ext_id, update_patches) ELSE g
             contains == { r \in Incoming(g1, ext_id) : r.name = "contains" }
             rela == CHOOSE r \in contains : TRUE
         IN IF g1.error # "" \/ ~(t.last_updated_time > ts * 1000) \/ contains = {}
              THEN g1
            ELSE IF rela.sourceId # asset_ext_id
              THEN LET g2 == adt_delete_relationship(g1, rela.sourceId, rela.relationshipId)
                   IN IF g2.error # "" THEN g2
                      ELSE insert_adt_relationship(g2, asset_ext_id, ext_id, "contains",
                                                   <<>>, <<>>)
            ELSE g1

RECURSIVE update_timeseries_of(_, _, _, _, _)
update_timeseries_of(w, g, asset_ext_id, ts_list, ts) ==
    IF ts_list = <<>> \/ g.error # "" THEN g
    ELSE update_timeseries_of(w, update_timeseries_body(w, g, asset_ext_id, Head(ts_list), ts),
                              asset_ext_id, Tail(ts_list), ts)

RECURSIVE update_timeseries(_, _, _, _)
update_timeseries(w, g, assets, ts) ==
    IF assets = <<>> \/ g.error # "" THEN g
    ELSE update_timeseries(w,
             update_timeseries_of(w, g, convert_ext_id(Head(assets).external_id),
                                  time_series_list(w, Head(assets).external_id), ts),
             Tail(assets), ts)

\* the twins under the twins of twin_prev, level by level, following the parent
\* relationships backwards; <<"...">> ends the list when the walk does not end
RECURSIVE twins_below(_, _, _)
twins_below(g, twin_prev, fuel) ==
    IF twin_prev = <<>> THEN <<>>
    ELSE IF fuel = 0 THEN << <<"...">> >>
    ELSE LET parent_rels(dt_id) ==
                 SetToSeq({ x \in Incoming(g, dt_id) : x.name = "parent" })
             children_of(dt_id) ==
                 [j \in 1..Len(parent_rels(dt_id)) |-> parent_rels(dt_id)[j].sourceId]
             RECURSIVE children(_)
             children(prev) ==
                 IF prev = <<>> THEN <<>>
                 ELSE children_of(Head(prev)) \o children(Tail(prev))
             twin_children == children(twin_prev)
         IN twin_children \o twins_below(g, twin_children, fuel - 1)

\* a twin with all its relationships, outgoing first
RECURSIVE delete_relationships(_, _)
delete_relationships(g, rels) ==
    IF rels = <<>> \/ g.error # "" THEN g
    ELSE delete_relationships(
             adt_delete_relationship(g, Head(rels).sourceId, Head(rels).relationshipId),
             Tail(rels))

delete_twin_with_relationships(g, dt_id) ==
    IF dt_id \notin DOMAIN g.twins THEN Fail(g, "ResourceNotFoundError")
    ELSE LET g1 == delete_relationships(g, SetToSeq(Outgoing(g, dt_id)))
             g2 == delete_relationships(g1, SetToSeq(Incoming(g1, dt_id)))
         IN IF g2.error # "" THEN g2 ELSE delete_digital_twin(g2, dt_id)

\* for i in range(len(twin_list)-1, -1, -1)
RECURSIVE delete_absent_twins(_, _, _)
delete_absent_twins(g, twin_list, asset_ext_ids) ==
    IF twin_list = <<>> \/ g.error # "" THEN g
    ELSE LET dt_id == twin_list[Len(twin_list)]
             rest == SubSeq(twin_list, 1, Len(twin_list) - 1)
         IN delete_absent_twins(
                IF dt_id \notin asset_ext_ids THEN delete_twin_with_relationships(g, dt_id)
                ELSE g,
                rest, asset_ext_ids)

\* assets is asset_list[1:]; the error "hangs" stands for a walk that never ends
delete_assets(g, assets, root_ext_id) ==
    LET root_id == convert_ext_id(root_ext_id)
        twin_list == twins_below(g, <<root_id>>, Cardinality(DOMAIN g.twins))
    IN IF root_id \notin DOMAIN g.twins THEN Fail(g, "ResourceNotFoundError")
       ELSE IF twin_list # <<>> /\ twin_list[Len(twin_list)] = <<"...">> THEN Fail(g, "hangs")
       ELSE delete_absent_twins(g, twin_list, SeqToSet(converted_ids(assets)))

RECURSIVE delete_rows(_, _, _)
delete_rows(g, rel_list_adt, rel_ext_ids) ==
    IF rel_list_adt = <<>> \/ g.error # "" THEN g
    ELSE LET r == Head(rel_list_adt).R
         IN delete_rows(IF r.relationshipId \notin rel_ext_ids
                        THEN adt_delete_relationship(g, r.sourceId, r.relationshipId)
                        ELSE g,
                        Tail(rel_list_adt), rel_ext_ids)

delete_asset_to_asset_relationships(w, g, assets) ==
    delete_rows(g, query_adt_batches(g.rels, "relatesTo", converted_ids(assets)),
                SeqToSet(external_ids(relationships_list(w, SeqToSet(external_ids(assets)), 0))))

\* the rows of "SELECT T.$dtId as assetId, CT.$dtId as tsId, R.$relationshipId as relId
\* FROM DIGITALTWINS T JOIN CT RELATED T.contains R WHERE T.$dtId in <pred_batch> and
\* CT.$metadata.$model = '<TIMESERIES>'"
query_twins_contains(g, pred_batch) ==
    SetToSeq({ [assetId |-> r.sourceId, tsId |-> r.targetId, relId |-> r.relationshipId] :
               r \in { x \in g.rels : /\ x.name = "contains"
                                      /\ x.sourceId \in SeqToSet(pred_batch)
                                      /\ g.twins[x.targetId].model = TIMESERIES } })

RECURSIVE query_contains_from(_, _)
query_contains_from(g, batches) ==
    IF batches = <<>> THEN <<>>
    ELSE query_twins_contains(g, Head(batches)) \o query_contains_from(g, Tail(batches))

RECURSIVE delete_timeseries_rows(_, _, _)
delete_timeseries_rows(g, ts_list_adt, ts_ext_ids) ==
    IF ts_list_adt = <<>> \/ g.error # "" THEN g
    ELSE LET ts == Head(ts_list_adt)
             g1 == adt_delete_relationship(g, ts.assetId, ts.relId)
         IN delete_timeseries_rows(
                IF ts.tsId \in ts_ext_ids THEN g
                ELSE IF g1.error # "" THEN g1
                ELSE delete_digital_twin(g1, ts.tsId),
                Tail(ts_list_adt), ts_ext_ids)

delete_timeseries(w, g, assets) ==
    delete_timeseries_rows(g,
        query_contains_from(g, pred_batches(converted_ids(assets), SQL_IN_BATCH_SIZE)),
        { convert_ext_id(x) : x \in DOMAIN w.timeseries })

\* get_last_exec_TS: the first entry of the root, 0 for None
get_last_exec_TS(last_executions, ext_id) ==
    LET hits == { j \in 1..Len(last_executions) :
                    last_executions[j].root_asset_ext_id = ext_id }
    IN IF hits = {} THEN 0
       ELSE last_executions[CHOOSE j \in hits : \A l \in hits : j <= l].timestamp_UTC

\* a bug set_last_exec_TS could have: an entry is appended whatever the file holds
set_last_exec_TS_append(last_executions, ext_id, ts) ==
    Append(last_executions, [root_asset_ext_id |-> ext_id, timestamp_UTC |-> ts])

\* a bug set_last_exec_TS could have: an entry the file holds is kept as it is
set_last_exec_TS_keep(last_executions, ext_id, ts) ==
    IF \E j \in 1..Len(last_executions) : last_executions[j].root_asset_ext_id = ext_id
    THEN last_executions
    ELSE Append(last_executions, [root_asset_ext_id |-> ext_id, timestamp_UTC |-> ts])

\* set_last_exec_TS: every entry of the root is set, one is appended when none
set_last_exec_TS(last_executions, ext_id, ts) ==
    IF \E j \in 1..Len(last_executions) : last_executions[j].root_asset_ext_id = ext_id
    THEN [j \in 1..Len(last_executions) |->
             IF last_executions[j].root_asset_ext_id = ext_id
             THEN [last_executions[j] EXCEPT !.timestamp_UTC = ts]
             ELSE last_executions[j]]
    ELSE Append(last_executions, [root_asset_ext_id |-> ext_id, timestamp_UTC |-> ts])

-----------------------------------------------------------------------------
(* CDF2ADT: the Asset Graphs and Twin Graphs a pass can meet.  The Twin     *)
(* Graph is what a first pass made of an earlier Asset Graph, possibly     *)
(* edited in the Twin Graph since; the Asset Graph is the earlier one      *)
(* after deletions, a move and an update.                                  *)

MaxPasses == 2
MaxClock == 5

SrcB == <<"B", ":">>
SrcX == <<"X">>
SrcY == <<"Y">>
SrcU == <<"U">>

SrcAsset(external_id, id, parent_external_id) ==
    [external_id |-> external_id, id |-> id, name |-> "n1", description |-> None,
     metadata |-> <<[k |-> <<"a", " ">>, v |-> "1"]>>,
     parent_external_id |-> parent_external_id, last_updated_time |-> 1000]

SrcTimeseries(external_id, id, asset_id) ==
    [external_id |-> external_id, id |-> id, name |-> "n1", description |-> None,
     metadata |-> <<>>, asset_id |-> asset_id, is_string |-> FALSE,
     last_updated_time |-> 1000]

SrcRelationship(external_id, source_external_id, target_external_id, labels) ==
    [external_id |-> external_id, source_external_id |-> source_external_id,
     target_external_id |-> target_external_id, labels |-> labels,
     last_updated_time |-> 1000]

\* the earlier Asset Graph, time series T of A and U of B:, in two shapes:
\*   "deep": R - A - (B:, X - Y)        "wide": R - (A, B: - X - Y)
SourceShapes == { "deep", "wide" }

OldSource(shape) ==
    [assets |->
        (ROOT_EXTERNAL_ID :> SrcAsset(ROOT_EXTERNAL_ID, 1, <<>>))
        @@ (TwinA :> SrcAsset(TwinA, 2, ROOT_EXTERNAL_ID))
        @@ (SrcB :> SrcAsset(SrcB, 3, IF shape = "deep" THEN TwinA ELSE ROOT_EXTERNAL_ID))
        @@ (SrcX :> SrcAsset(SrcX, 5, IF shape = "deep" THEN TwinA ELSE SrcB))
        @@ (SrcY :> SrcAsset(SrcY, 6, SrcX)),
     timeseries |->
        (TwinT :> SrcTimeseries(TwinT, 4, 2)) @@ (SrcU :> SrcTimeseries(SrcU, 7, 3)),
     datapoints |-> (TwinT :> [timestamp |-> 1000, value |-> "1.5", is_float |-> TRUE]),
     relationships |->
        (<<"q", "1">> :> SrcRelationship(<<"q", "1">>, TwinA, SrcB, << <<"L">> >>))
        @@ (<<"q", "2">> :> SrcRelationship(<<"q", "2">>, TwinA, SrcX, <<>>))]

\* what the source became: X and Y deleted (with the relationship to X), U deleted,
\* B: moved (under the root when it was under A, under A when it was under the
\* root), A updated; a changed node is stamped 2000
NewSource(old, delX, delU, moveB, changeA) ==
    LET gone == IF delX THEN {SrcX, SrcY} ELSE {}
        a1 == [x \in DOMAIN old.assets \ gone |-> old.assets[x]]
        a2 == IF moveB
              THEN [a1 EXCEPT ![SrcB].parent_external_id =
                                  IF @ = TwinA THEN ROOT_EXTERNAL_ID ELSE TwinA,
                              ![SrcB].last_updated_time = 2000]
              ELSE a1
        a3 == IF changeA THEN [a2 EXCEPT ![TwinA].description = "d1",
                                         ![TwinA].last_updated_time = 2000]
              ELSE a2
    IN [assets |-> a3,
        timeseries |-> IF delU THEN Without(old.timeseries, SrcU) ELSE old.timeseries,
        datapoints |-> old.datapoints,
        relationships |-> IF delX THEN Without(old.relationships, <<"q", "2">>)
                          ELSE old.relationships]

\* the source when the root asset and all under it were deleted
NoSource == [assets |-> <<>>, timeseries |-> <<>>, datapoints |-> <<>>,
             relationships |-> <<>>]

EmptyGraph == [twins |-> <<>>, rels |-> {}, error |-> "", log |-> <<>>]

\* the Twin Graph a first pass makes of the Asset Graph w
FirstPass(w) ==
    LET assets == retrieve_subtree(w, ROOT_EXTERNAL_ID)
    IN insert_timeseries(w,
           insert_asset_to_asset_relationships(w, insert_assets(EmptyGraph, assets), assets),
           assets)

\* edits made in the Twin Graph since: none, the parent relationship of A removed, a
\* second parent relationship added to X
TwinEdits == { "none", "unparent", "reparent" }

Edited(g, edit) ==
    IF edit = "unparent"
      THEN [g EXCEPT !.rels = { r \in @ : ~(r.sourceId = TwinA /\ r.name = "parent") }]
    ELSE IF edit = "reparent"
      THEN [g EXCEPT !.rels = @ \cup { [relationshipId |-> <<"e">>, name |-> "parent",
                                        sourceId |-> SrcX,
                                        targetId |-> ROOT_EXTERNAL_ID] }]
    ELSE g

SyncInit ==
    /\ \E shape \in SourceShapes, delX, delU, moveB, changeA, noRoot \in BOOLEAN :
         LET w == IF noRoot THEN NoSource
                  ELSE NewSource(OldSource(shape), delX, delU, moveB, changeA)
         IN /\ cdf_assets = w.assets
            /\ cdf_timeseries = w.timeseries
            /\ cdf_datapoints = w.datapoints
            /\ cdf_relationships = w.relationships
            /\ \E edit \in TwinEdits, synced \in BOOLEAN :
                 LET g == IF synced THEN Edited(FirstPass(OldSource(shape)), edit)
                          ELSE EmptyGraph
                 IN /\ adt_twins = g.twins
                    /\ adt_rels = g.rels
    /\ cdf_labels = { <<"L">> }
    /\ cdf_next_id = 8
    /\ cdf_lag = 0
    /\ func_runs \in { <<>>, <<[root_asset_ext_id |-> ROOT_EXTERNAL_ID, timestamp_UTC |-> 1]>> }
    /\ sync_pc = "start"
    /\ clock = 2
    /\ sync_ts = 0
    /\ asset_list = <<>>
    /\ date_now = 0
    /\ read_clock = 0
    /\ pass_no = 1
    /\ pass_twins = <<>>
    /\ pass_rels = {}
    /\ pass_runs = <<>>
    /\ pass_steps = <<>>
    /\ pass_calls = <<>>
    /\ DiffIdle /\ QueryIdle /\ IncIdle /\ OverlapIdle

-----------------------------------------------------------------------------
(* CDF2ADT handle, one action per step of the pass; the Asset Graph changes *)
(* while the pass runs.  The wall clock advances with every reading and    *)
(* every stamping, so no two of them share an instant.                     *)

Goto(g, next) ==
    /\ adt_twins' = g.twins
    /\ adt_rels' = g.rels
    /\ sync_pc' = IF g.error = "" THEN next
                  ELSE IF g.error = "hangs" THEN "hangs" ELSE "raised"
    /\ pass_steps' = Append(pass_steps, sync_pc)
    /\ pass_calls' = pass_calls \o [j \in 1..Len(g.log) |-> g.log[j] @@ [step |-> sync_pc]]

\* a bug Prepare could have: the consistency check is left out
Prepare_unguarded ==
    /\ sync_pc = "start"
    /\ sync_ts' = IF ROOT_EXTERNAL_ID \in DOMAIN cdf_assets
                  THEN get_last_exec_TS(func_runs, ROOT_EXTERNAL_ID) ELSE sync_ts
    /\ sync_pc' = IF ROOT_EXTERNAL_ID \notin DOMAIN cdf_assets THEN "returned" ELSE "read"
    /\ pass_twins' = adt_twins
    /\ pass_rels' = adt_rels
    /\ pass_runs' = func_runs
    /\ pass_steps' = <<"start">>
    /\ pass_calls' = <<>>
    /\ UNCHANGED <<cdfVars, adtVars, func_runs, clock, asset_list, date_now, read_clock,
                   pass_no, notSyncVars>>

\* Step 1 and the consistency check of Step 2
Prepare ==
    /\ sync_pc = "start"
    /\ LET ts == get_last_exec_TS(func_runs, ROOT_EXTERNAL_ID)
           twin_exists == convert_ext_id(ROOT_EXTERNAL_ID) \in DOMAIN adt_twins
       IN /\ sync_ts' = IF ROOT_EXTERNAL_ID \in DOMAIN cdf_assets THEN ts ELSE sync_ts
          /\ sync_pc' = IF ROOT_EXTERNAL_ID \notin DOMAIN cdf_assets THEN "returned"
                        ELSE IF ts # 0 /\ ~twin_exists THEN "returned"
                        ELSE "read"
    /\ pass_twins' = adt_twins
    /\ pass_rels' = adt_rels
    /\ pass_runs' = func_runs
    /\ pass_steps' = <<"start">>
    /\ pass_calls' = <<>>
    /\ UNCHANGED <<cdfVars, adtVars, func_runs, clock, asset_list, date_now, read_clock,
                   pass_no, notSyncVars>>

\* asset_list = cdf_client.assets.retrieve_subtree(external_id=root_ext_id)
ReadSubtree ==
    /\ sync_pc = "read"
    /\ asset_list' = retrieve_subtree(World, ROOT_EXTERNAL_ID)
    /\ clock' = clock + 1
    /\ read_clock' = clock + 1
    /\ sync_pc' = "sample"
    /\ pass_steps' = Append(pass_steps, sync_pc)
    /\ UNCHANGED <<cdfVars, adtVars, pass_calls, func_runs, sync_ts, date_now, pass_no,
                   pass_twins,
                   pass_rels, pass_runs, notSyncVars>>

\* date_now = datetime.utcnow()
SampleClock ==
    /\ sync_pc = "sample"
    /\ clock' = clock + 1
    /\ date_now' = clock + 1
    /\ sync_pc' = IF sync_ts = 0 THEN "insert_assets" ELSE "update_assets"
    /\ pass_steps' = Append(pass_steps, sync_pc)
    /\ UNCHANGED <<cdfVars, adtVars, pass_calls, func_runs, sync_ts, asset_list, read_clock,
                   pass_no,
                   pass_twins, pass_rels, pass_runs, notSyncVars>>

syncFrame == <<cdfVars, func_runs, clock, sync_ts, asset_list, date_now, read_clock, pass_no,
               pass_twins, pass_rels, pass_runs, notSyncVars>>

InsertAssets ==
    /\ sync_pc = "insert_assets"
    /\ Goto(insert_assets(Graph, asset_list), "insert_relationships")
    /\ UNCHANGED syncFrame

InsertRelationships ==
    /\ sync_pc = "insert_relationships"
    /\ Goto(insert_asset_to_asset_relationships(World, Graph, asset_list), "insert_timeseries")
    /\ UNCHANGED syncFrame

InsertTimeseries ==
    /\ sync_pc = "insert_timeseries"
    /\ Goto(insert_timeseries(World, Graph, asset_list), "checkpoint")
    /\ UNCHANGED syncFrame

UpdateAssets ==
    /\ sync_pc = "update_assets"
    /\ Goto(update_assets(Graph, modified_since(asset_list, sync_ts)), "update_relationships")
    /\ UNCHANGED syncFrame

UpdateRelationships ==
    /\ sync_pc = "update_relationships"
    /\ Goto(update_asset_to_asset_relationships(World, Graph, asset_list, sync_ts),
            "update_timeseries")
    /\ UNCHANGED syncFrame

UpdateTimeseries ==
    /\ sync_pc = "update_timeseries"
    /\ Goto(update_timeseries(World, Graph, asset_list, sync_ts), "delete_assets")
    /\ UNCHANGED syncFrame

DeleteAssets ==
    /\ sync_pc = "delete_assets"
    /\ Goto(delete_assets(Graph, Tail(asset_list), ROOT_EXTERNAL_ID), "delete_relationships")
    /\ UNCHANGED syncFrame

DeleteRelationships ==
    /\ sync_pc = "delete_relationships"
    /\ Goto(delete_asset_to_asset_relationships(World, Graph, asset_list), "delete_timeseries")
    /\ UNCHANGED syncFrame

DeleteTimeseries ==
    /\ sync_pc = "delete_timeseries"
    /\ Goto(delete_timeseries(World, Graph, asset_list), "checkpoint")
    /\ UNCHANGED syncFrame

\* set_last_exec_TS(root_ext_id, date_now.timestamp())
WriteCheckpoint ==
    /\ sync_pc = "checkpoint"
    /\ func_runs' = set_last_exec_TS(func_runs, ROOT_EXTERNAL_ID, date_now)
    /\ sync_pc' = "done"
    /\ pass_steps' = Append(pass_steps, sync_pc)
    /\ UNCHANGED <<cdfVars, adtVars, pass_calls, clock, sync_ts, asset_list, date_now,
                   read_clock,
                   pass_no, pass_twins, pass_rels, pass_runs, notSyncVars>>

\* the timer fires again after a pass that ended
NextPass ==
    /\ sync_pc \in {"done", "raised", "returned"}
    /\ pass_no < MaxPasses
    /\ pass_no' = pass_no + 1
    /\ sync_pc' = "start"
    /\ UNCHANGED <<cdfVars, adtVars, func_runs, clock, sync_ts, asset_list, date_now,
                   read_clock, pass_twins, pass_rels, pass_runs, pass_steps, pass_calls,
                   notSyncVars>>

\* the assets that are changed in the source while passes run
UpdatedAssets == { <<"A">>, SrcB }

\* the Asset Graph changes: an asset under the root is updated and stamped
SourceUpdate ==
    /\ sync_pc \notin {"idle", "start"}
    /\ clock < MaxClock
    /\ \E x \in DOMAIN cdf_assets \cap UpdatedAssets :
         cdf_assets' = [cdf_assets EXCEPT
                          ![x].description = IF @ = "d2" THEN "d1" ELSE "d2",
                          ![x].last_updated_time = (clock + 1) * 1000]
    /\ clock' = clock + 1
    /\ UNCHANGED <<cdf_timeseries, cdf_datapoints, cdf_relationships, cdf_labels,
                   cdf_next_id, cdf_lag, adtVars, sync_pc, func_runs, sync_ts, asset_list,
                   date_now,
                   read_clock, pass_no, pass_twins, pass_rels, pass_runs, pass_steps,
                   pass_calls, notSyncVars>>

-----------------------------------------------------------------------------
(* CDF2ADT handle, several invocations at a time.  Every invocation has    *)
(* its own root, sync_ts, asset_list and date_now; the invocations share   *)
(* the Asset Graph, the Twin Graph, the blob file and the wall clock.      *)
(* set_last_exec_TS downloads the file and uploads it in two steps.        *)

MaxOverlap == 2
Invocations == 1..MaxOverlap

SrcS == <<"S">>          \* the root asset of another hierarchy

\* the Asset Graph of the invocations: A under the root R, and the root S
OverlapSource ==
    [assets |-> (ROOT_EXTERNAL_ID :> SrcAsset(ROOT_EXTERNAL_ID, 1, <<>>))
                @@ (TwinA :> SrcAsset(TwinA, 2, ROOT_EXTERNAL_ID))
                @@ (SrcS :> SrcAsset(SrcS, 3, <<>>)),
     timeseries |-> <<>>, datapoints |-> <<>>, relationships |-> <<>>]

NewInvocation(root_ext_id) ==
    [pc |-> "start", root_ext_id |-> root_ext_id, sync_ts |-> 0, asset_list |-> <<>>,
     date_now |-> 0, func_runs |-> <<>>]

\* nothing was synchronized yet, or the hierarchy of R was, at the time 1
OverlapInit ==
    /\ cdf_assets = OverlapSource.assets
    /\ cdf_timeseries = <<>>
    /\ cdf_datapoints = <<>>
    /\ cdf_relationships = <<>>
    /\ cdf_labels = {}
    /\ cdf_next_id = 4
    /\ cdf_lag = 0
    /\ \E synced \in BOOLEAN :
         LET g == IF synced THEN FirstPass(OverlapSource) ELSE EmptyGraph
         IN /\ adt_twins = g.twins
            /\ adt_rels = g.rels
            /\ func_runs = IF synced
                           THEN <<[root_asset_ext_id |-> ROOT_EXTERNAL_ID,
                                   timestamp_UTC |-> 1]>>
                           ELSE <<>>
    /\ clock = 2
    /\ \E roots \in [Invocations -> {ROOT_EXTERNAL_ID, SrcS}] :
         ov_pass = [p \in Invocations |-> NewInvocation(roots[p])]
    /\ ov_uploads = <<>>
    /\ sync_pc = "idle" /\ sync_ts = 0 /\ asset_list = <<>> /\ date_now = 0
    /\ read_clock = 0 /\ pass_no = 0 /\ pass_twins = <<>> /\ pass_rels = {}
    /\ pass_runs = func_runs /\ pass_steps = <<>> /\ pass_calls = <<>>
    /\ DiffIdle /\ QueryIdle /\ IncIdle

\* what an invocation leaves alone whatever its step
overlapFrame == <<cdfVars, sync_pc, sync_ts, asset_list, date_now, read_clock, pass_no,
                  pass_twins, pass_rels, pass_runs, pass_steps, pass_calls, diffVars,
                  queryVars,
                  incVars>>

\* Step 1 and the consistency check of Step 2: get_last_exec_TS downloads the file
PassPrepare(p) ==
    /\ ov_pass[p].pc = "start"
    /\ LET root_ext_id == ov_pass[p].root_ext_id
           ts == get_last_exec_TS(func_runs, root_ext_id)
           twin_exists == convert_ext_id(root_ext_id) \in DOMAIN adt_twins
       IN ov_pass' = [ov_pass EXCEPT
              ![p].sync_ts = IF root_ext_id \in DOMAIN cdf_assets THEN ts ELSE @,
              ![p].pc = IF root_ext_id \notin DOMAIN cdf_assets THEN "returned"
                        ELSE IF ts # 0 /\ ~twin_exists THEN "returned"
                        ELSE "read"]
    /\ UNCHANGED <<adtVars, func_runs, clock, ov_uploads, overlapFrame>>

\* asset_list = cdf_client.assets.retrieve_subtree(external_id=root_ext_id)
PassReadSubtree(p) ==
    /\ ov_pass[p].pc = "read"
    /\ ov_pass' = [ov_pass EXCEPT
           ![p].asset_list = retrieve_subtree(World, ov_pass[p].root_ext_id),
           ![p].pc = "sample"]
    /\ UNCHANGED <<adtVars, func_runs, clock, ov_uploads, overlapFrame>>

\* date_now = datetime.utcnow()
PassSampleClock(p) ==
    /\ ov_pass[p].pc = "sample"
    /\ clock' = clock + 1
    /\ ov_pass' = [ov_pass EXCEPT
           ![p].date_now = clock + 1,
           ![p].pc = IF ov_pass[p].sync_ts = 0 THEN "insert" ELSE "update"]
    /\ UNCHANGED <<adtVars, func_runs, ov_uploads, overlapFrame>>

\* the next step of a branch, unless the step before raised
Then(g, step(_)) == IF g.error # "" THEN g ELSE step(g)

\* the three steps of the branch "if not(sync_ts)"
insert_branch(w, g, assets) ==
    LET g1 == insert_assets(g, assets)
        g2 == Then(g1, LAMBDA x : insert_asset_to_asset_relationships(w, x, assets))
    IN Then(g2, LAMBDA x : insert_timeseries(w, x, assets))

\* the six steps of the else branch
update_branch(w, g, assets, ts, root_ext_id) ==
    LET g1 == update_assets(g, modified_since(assets, ts))
        g2 == Then(g1, LAMBDA x : update_asset_to_asset_relationships(w, x, assets, ts))
        g3 == Then(g2, LAMBDA x : update_timeseries(w, x, assets, ts))
        g4 == Then(g3, LAMBDA x : delete_assets(x, Tail(assets), root_ext_id))
        g5 == Then(g4, LAMBDA x : delete_asset_to_asset_relationships(w, x, assets))
    IN Then(g5, LAMBDA x : delete_timeseries(w, x, assets))

PassGoto(p, g) ==
    /\ adt_twins' = g.twins
    /\ adt_rels' = g.rels
    /\ ov_pass' = [ov_pass EXCEPT ![p].pc = IF g.error = "" THEN "download" ELSE "raised"]

PassInsert(p) ==
    /\ ov_pass[p].pc = "insert"
    /\ PassGoto(p, insert_branch(World, Graph, ov_pass[p].asset_list))
    /\ UNCHANGED <<func_runs, clock, ov_uploads, overlapFrame>>

PassUpdate(p) ==
    /\ ov_pass[p].pc = "update"
    /\ PassGoto(p, update_branch(World, Graph, ov_pass[p].asset_list, ov_pass[p].sync_ts,
                                 ov_pass[p].root_ext_id))
    /\ UNCHANGED <<func_runs, clock, ov_uploads, overlapFrame>>

\* set_last_exec_TS, first half: (blob_client, func_runs) = get_last_exec_file()
PassDownload(p) ==
    /\ ov_pass[p].pc = "download"
    /\ ov_pass' = [ov_pass EXCEPT ![p].func_runs = func_runs, ![p].pc = "upload"]
    /\ UNCHANGED <<adtVars, func_runs, clock, ov_uploads, overlapFrame>>

\* set_last_exec_TS, second half: the entry is set in the downloaded copy, and
\* blob_client.upload_blob(json.dumps(func_runs), overwrite=True)
PassUpload(p) ==
    /\ ov_pass[p].pc = "upload"
    /\ func_runs' = set_last_exec_TS(ov_pass[p].func_runs, ov_pass[p].root_ext_id,
                                     ov_pass[p].date_now)
    /\ ov_uploads' = Append(ov_uploads, [invocation |-> p,
                                         root_asset_ext_id |-> ov_pass[p].root_ext_id,
                                         timestamp_UTC |-> ov_pass[p].date_now,
                                         sync_ts |-> ov_pass[p].sync_ts])
    /\ ov_pass' = [ov_pass EXCEPT ![p].pc = "done"]
    /\ UNCHANGED <<adtVars, clock, overlapFrame>>

-----------------------------------------------------------------------------
(* Step 5a alone: delete_assets over Twin Graphs whose parent relationships *)
(* form chains, diamonds and cycles.                                       *)

\* the parent relationships a Twin Graph of the walk may hold, <<source, target>>
WalkEdges ==
    { <<TwinA, ROOT_EXTERNAL_ID>>, <<SrcX, TwinA>>, <<SrcY, SrcX>>,
      <<SrcX, ROOT_EXTERNAL_ID>>, <<TwinA, SrcX>>, <<SrcY, ROOT_EXTERNAL_ID>>,
      <<ROOT_EXTERNAL_ID, TwinA>> }

WalkGraph(edges) ==
    LET g == FirstPass(OldSource("deep"))
    IN [g EXCEPT !.rels = { r \in @ : r.name # "parent" }
                          \cup { [relationshipId |-> arrow_id(e[1], e[2]), name |-> "parent",
                                  sourceId |-> e[1], targetId |-> e[2]] : e \in edges }]

WalkInit ==
    /\ \E delX \in BOOLEAN :
         LET w == NewSource(OldSource("deep"), delX, FALSE, FALSE, FALSE)
         IN /\ cdf_assets = w.assets
            /\ cdf_timeseries = w.timeseries
            /\ cdf_datapoints = w.datapoints
            /\ cdf_relationships = w.relationships
            /\ asset_list = retrieve_subtree(w, ROOT_EXTERNAL_ID)
    /\ \E edges \in SUBSET WalkEdges :
         /\ adt_twins = WalkGraph(edges).twins
         /\ adt_rels = WalkGraph(edges).rels
    /\ cdf_labels = { <<"L">> }
    /\ cdf_next_id = 8
    /\ cdf_lag = 0
    /\ func_runs = <<[root_asset_ext_id |-> ROOT_EXTERNAL_ID, timestamp_UTC |-> 1]>>
    /\ sync_pc = "delete_assets"
    /\ clock = 3
    /\ sync_ts = 1
    /\ date_now = 2
    /\ read_clock = 2
    /\ pass_no = 1
    /\ pass_twins = adt_twins
    /\ pass_rels = adt_rels
    /\ pass_runs = func_runs
    /\ pass_steps = <<>>
    /\ pass_calls = <<>>
    /\ DiffIdle /\ QueryIdle /\ IncIdle /\ OverlapIdle

-----------------------------------------------------------------------------
(* Passes from an empty Twin Graph with changes of the Asset Graph between  *)
(* them: R with the assets A and B: and the time series T of A at first;   *)
(* Z is an asset under A and U a time series of B: that come and go.       *)

SrcZ == <<"Z">>

EvolveSource ==
    [assets |->
        (ROOT_EXTERNAL_ID :> SrcAsset(ROOT_EXTERNAL_ID, 1, <<>>))
        @@ (TwinA :> SrcAsset(TwinA, 2, ROOT_EXTERNAL_ID))
        @@ (SrcB :> SrcAsset(SrcB, 3, ROOT_EXTERNAL_ID)),
     timeseries |-> (TwinT :> SrcTimeseries(TwinT, 4, 2)),
     datapoints |-> (TwinT :> [timestamp |-> 1000, value |-> "1.5", is_float |-> TRUE]),
     relationships |-> <<>>]

ChangeKinds ==
    { "reparent", "relink", "add_asset", "remove_asset", "add_timeseries",
      "remove_timeseries", "modify" }

\* the Asset Graph after a change of the kind, stamped with the time now
Changed(w, kind, now) ==
    IF kind = "reparent"
      THEN [w EXCEPT !.assets[SrcB].parent_external_id =
                         IF @ = TwinA THEN ROOT_EXTERNAL_ID ELSE TwinA,
                     !.assets[SrcB].last_updated_time = now]
    ELSE IF kind = "relink"
      THEN [w EXCEPT !.timeseries[TwinT].asset_id = IF @ = 2 THEN 3 ELSE 2,
                     !.timeseries[TwinT].last_updated_time = now]
    ELSE IF kind = "add_asset" /\ SrcZ \notin DOMAIN w.assets
      THEN [w EXCEPT !.assets =
                (SrcZ :> [SrcAsset(SrcZ, 5, TwinA) EXCEPT !.last_updated_time = now]) @@ @]
    ELSE IF kind = "remove_asset" /\ SrcZ \in DOMAIN w.assets
      THEN [w EXCEPT !.assets = Without(@, SrcZ)]
    ELSE IF kind = "add_timeseries" /\ SrcU \notin DOMAIN w.timeseries
      THEN [w EXCEPT !.timeseries =
                (SrcU :> [SrcTimeseries(SrcU, 7, 3) EXCEPT !.last_updated_time = now]) @@ @]
    ELSE IF kind = "remove_timeseries" /\ SrcU \in DOMAIN w.timeseries
      THEN [w EXCEPT !.timeseries = Without(@, SrcU)]
    ELSE IF kind = "modify"
      THEN [w EXCEPT !.assets[TwinA].name = IF @ = "n1" THEN "n2" ELSE "n1",
                     !.assets[TwinA].description = IF @ = "d1" THEN None ELSE "d1",
                     !.assets[TwinA].metadata =
                         IF Len(@) = 1 THEN <<[k |-> <<"a", " ">>, v |-> "2"],
                                                [k |-> <<"b">>, v |-> "1"]>>
                         ELSE <<[k |-> <<"a", " ">>, v |-> "1"]>>,
                     !.assets[TwinA].last_updated_time = now]
    ELSE w

EvolveInit ==
    /\ cdf_assets = EvolveSource.assets
    /\ cdf_timeseries = EvolveSource.timeseries
    /\ cdf_datapoints = EvolveSource.datapoints
    /\ cdf_relationships = EvolveSource.relationships
    /\ cdf_labels = {}
    /\ cdf_next_id = 8
    /\ cdf_lag = 0
    /\ adt_twins = EmptyGraph.twins
    /\ adt_rels = EmptyGraph.rels
    /\ func_runs = <<>>
    /\ sync_pc = "start"
    /\ clock = 0
    /\ sync_ts = 0
    /\ asset_list = <<>>
    /\ date_now = 0
    /\ read_clock = 0
    /\ pass_no = 1
    /\ pass_twins = <<>>
    /\ pass_rels = {}
    /\ pass_runs = <<>>
    /\ pass_steps = <<>>
    /\ pass_calls = <<>>
    /\ DiffIdle /\ QueryIdle /\ IncIdle /\ OverlapIdle

\* the Asset Graph changes before a pass starts, or after the pass has read the
\* subtree and before it samples the clock
SourceChange ==
    /\ sync_pc \in {"start", "sample"}
    /\ clock < MaxClock
    /\ \E kind \in ChangeKinds :
         LET w == Changed(World, kind, (clock + 1) * 1000)
         IN /\ w.assets # cdf_assets \/ w.timeseries # cdf_timeseries
            /\ cdf_assets' = w.assets
            /\ cdf_timeseries' = w.timeseries
    /\ clock' = clock + 1
    /\ UNCHANGED <<cdf_datapoints, cdf_relationships, cdf_labels, cdf_next_id, cdf_lag,
                   adtVars,
                   sync_pc, func_runs, sync_ts, asset_list, date_now, read_clock, pass_no,
                   pass_twins, pass_rels, pass_runs, pass_steps, pass_calls,
                   notSyncVars>>

-----------------------------------------------------------------------------
(* A pass over a Twin Graph that an earlier pass made of an earlier source: *)
(* R with the assets A and B:, the time series T of A and U of B:, and the *)
(* relationship q1 between A and B:.                                       *)

RelQ == <<"q", "1">>

\* the source with q1 as given (<<>> for none) and with or without U
ReconcileSource(q, withU) ==
    [assets |->
        (ROOT_EXTERNAL_ID :> SrcAsset(ROOT_EXTERNAL_ID, 1, <<>>))
        @@ (TwinA :> SrcAsset(TwinA, 2, ROOT_EXTERNAL_ID))
        @@ (SrcB :> SrcAsset(SrcB, 3, ROOT_EXTERNAL_ID)),
     timeseries |->
        (TwinT :> SrcTimeseries(TwinT, 4, 2))
        @@ (IF withU THEN (SrcU :> SrcTimeseries(SrcU, 7, 3)) ELSE <<>>),
     datapoints |-> (TwinT :> [timestamp |-> 1000, value |-> "1.5", is_float |-> TRUE]),
     relationships |-> IF q = <<>> THEN <<>> ELSE (RelQ :> q[1])]

\* q1 from A to B: or back, with no, one or two labels, as it was or modified
ReconcileRelationships(labels, times) ==
    { <<>> } \cup
    { << [SrcRelationship(RelQ, e[1], e[2], l) EXCEPT !.last_updated_time = t] >> :
        e \in { <<TwinA, SrcB>>, <<SrcB, TwinA>> }, l \in labels, t \in times }

\* edits made in the Twin Graph since: none, a second contains relationship into U
ReconcileEdits == { "none", "contains" }

ReconcileEdited(g, edit) ==
    IF edit = "contains"
      THEN [g EXCEPT !.rels = @ \cup { [relationshipId |-> <<"c", "2">>, name |-> "contains",
                                        sourceId |-> TwinA,
                                        targetId |-> convert_ext_id(SrcU)] }]
    ELSE g

ReconcileInit ==
    /\ \E old \in ReconcileRelationships({ <<>>, << <<"L">> >> }, { 1000 }),
          new \in ReconcileRelationships({ <<>>, << <<"L">> >>, << <<"L">>, <<"M">> >> },
                                         { 1000, 3000 }),
          withU \in BOOLEAN, edit \in ReconcileEdits :
         LET w == ReconcileSource(new, withU)
             g == ReconcileEdited(FirstPass(ReconcileSource(old, TRUE)), edit)
         IN /\ cdf_assets = w.assets
            /\ cdf_timeseries = w.timeseries
            /\ cdf_datapoints = w.datapoints
            /\ cdf_relationships = w.relationships
            /\ adt_twins = g.twins
            /\ adt_rels = g.rels
    /\ cdf_labels = { <<"L">>, <<"M">> }
    /\ cdf_next_id = 8
    /\ cdf_lag = 0
    /\ func_runs = <<[root_asset_ext_id |-> ROOT_EXTERNAL_ID, timestamp_UTC |-> 2]>>
    /\ sync_pc = "start"
    /\ clock = 3
    /\ sync_ts = 0
    /\ asset_list = <<>>
    /\ date_now = 0
    /\ read_clock = 0
    /\ pass_no = 1
    /\ pass_twins = <<>>
    /\ pass_rels = {}
    /\ pass_runs = <<>>
    /\ pass_steps = <<>>
    /\ pass_calls = <<>>
    /\ DiffIdle /\ QueryIdle /\ IncIdle /\ OverlapIdle

vars == <<diffVars, queryVars, cdfVars, adtVars, incVars, syncVars, overlapVars>>

NextDiff == Diff \/ Apply
SpecDiff == DiffInit /\ [][NextDiff]_vars

NextBatch == QueryBatch \/ QueryReturn
SpecBatch == QueryInit /\ [][NextBatch]_vars

NextInc == HandleStart \/ HandleEvent \/ HandleReturn
SpecInc == IncInit /\ [][NextInc]_vars
SpecParse == ParseInit /\ [][NextInc]_vars
SpecUpdate == UpdateInit /\ [][NextInc]_vars
SpecRelationship == RelationshipInit /\ [][NextInc]_vars
SpecLabels == LabelsInit /\ [][NextInc]_vars
SpecLatestValue == LatestValueInit /\ [][NextInc]_vars

NextSync ==
    \/ Prepare \/ ReadSubtree \/ SampleClock
    \/ InsertAssets \/ InsertRelationships \/ InsertTimeseries
    \/ UpdateAssets \/ UpdateRelationships \/ UpdateTimeseries
    \/ DeleteAssets \/ DeleteRelationships \/ DeleteTimeseries
    \/ WriteCheckpoint \/ NextPass \/ SourceUpdate
SpecSync == SyncInit /\ [][NextSync]_vars

NextOverlap ==
    \/ \E p \in Invocations : PassPrepare(p)
    \/ \E p \in Invocations : PassReadSubtree(p)
    \/ \E p \in Invocations : PassSampleClock(p)
    \/ \E p \in Invocations : PassInsert(p)
    \/ \E p \in Invocations : PassUpdate(p)
    \/ \E p \in Invocations : PassDownload(p)
    \/ \E p \in Invocations : PassUpload(p)
SpecOverlap == OverlapInit /\ [][NextOverlap]_vars

SpecWalk == WalkInit /\ [][DeleteAssets]_vars

NextEvolve ==
    \/ Prepare \/ ReadSubtree \/ SampleClock
    \/ InsertAssets \/ InsertRelationships \/ InsertTimeseries
    \/ UpdateAssets \/ UpdateRelationships \/ UpdateTimeseries
    \/ DeleteAssets \/ DeleteRelationships \/ DeleteTimeseries
    \/ WriteCheckpoint \/ NextPass \/ SourceChange
SpecEvolve == EvolveInit /\ [][NextEvolve]_vars

NextReconcile ==
    \/ Prepare \/ ReadSubtree \/ SampleClock
    \/ UpdateAssets \/ UpdateRelationships \/ UpdateTimeseries
    \/ DeleteAssets \/ DeleteRelationships \/ DeleteTimeseries
    \/ WriteCheckpoint \/ NextPass
SpecReconcile == ReconcileInit /\ [][NextReconcile]_vars

-----------------------------------------------------------------------------
(* Claims *)

\* description equality as the code reads it: None and '' are both "no description"
DescEq(x, y) == (~Truthy(x) /\ ~Truthy(y)) \/ x = y

\* C4 (as claimed): Diff/Apply round trip.  For node states A (apply_record) and
\* B (diff_resource), applying to A the patch operations get_update_patches
\* computes between the twin of A and B yields a record whose displayName,
\* description and metadata (keys after alphabet translation) equal those of B.
DiffApplyRoundTrip ==
    (diff_pc = "applied" /\ diff_twin = get_twin_dict(apply_record, ASSET)) =>
        /\ apply_result.error = ""
        /\ apply_result.record.name = diff_resource.name
        /\ DescEq(apply_result.record.description, diff_resource.description)
        /\ DictEq(convert_metadata(apply_result.record.metadata),
                  convert_metadata(diff_resource.metadata))

RECURSIVE Flatten(_)
Flatten(ss) == IF ss = <<>> THEN <<>> ELSE Head(ss) \o Flatten(Tail(ss))

CeilDiv(a, b) == (a + b - 1) \div b

\* C5: query_adt_batches over N ids with chunk size K issues ceil(N/K) queries
\* (none when N = 0); the chunks, in order, are a partition of the id list into
\* non-empty chunks of at most K ids; and the concatenated rows are, as a set,
\* the rows of one unchunked query over all N ids.
BatchChunking ==
    q_pc = "done" =>
        /\ Len(q_batches) = CeilDiv(Len(q_predicates), q_n)
        /\ Flatten(q_batches) = q_predicates
        /\ \A j \in 1..Len(q_batches) :
               Len(q_batches[j]) >= 1 /\ Len(q_batches[j]) <= q_n
        /\ SeqToSet(q_res_adt) =
               SeqToSet(query_twins_related(q_rels, "relatesTo", q_predicates))

\* C5 witness: a finished run that needed several chunks, the last one short,
\* and returned rows
BatchChunkingWitness ==
    /\ q_pc = "done"
    /\ Len(q_batches) >= 2
    /\ Len(q_batches[Len(q_batches)]) < q_n
    /\ q_res_adt # <<>>

\* the twin agrees with the source node on every field but, possibly, description
FieldEqualButDescription(src, tw) ==
    /\ "externalId" \in DOMAIN tw /\ tw.externalId = src.external_id
    /\ "id" \in DOMAIN tw /\ tw.id = str(src.id)
    /\ "displayName" \in DOMAIN tw /\ tw.displayName = src.name
    /\ DictEq(twin_values(tw), convert_metadata(src.metadata))

\* the twin's description is the source node's (none when the source has none)
DescriptionEqual(src, tw) ==
    IF Truthy(src.description)
    THEN "description" \in DOMAIN tw /\ tw.description = src.description
    ELSE "description" \notin DOMAIN tw

\* the translated metadata keys on which source node and twin disagree
DifferingKeys(src, tw) ==
    LET meta == convert_metadata(src.metadata)
        values == twin_values(tw)
    IN { k \in DictKeys(meta) \cup DictKeys(values) :
            ~(DictHas(meta, k) /\ DictHas(values, k) /\ DictGet(meta, k) = DictGet(values, k)) }

-----------------------------------------------------------------------------
(* Claims on ADT2CDF, under SpecInc *)

\* the event processed last is a twin event of this kind
TwinEvent(op, model) ==
    /\ event.kind = "Twin"
    /\ event.op = op
    /\ event.body.model = model

\* the external id the event processed last names
EventId ==
    IF "externalId" \in DOMAIN event.body /\ event.body.externalId # <<>>
    THEN event.body.externalId
    ELSE event.subject

GraphUnchanged ==
    /\ cdf_assets = before.assets
    /\ cdf_timeseries = before.timeseries
    /\ cdf_datapoints = before.datapoints
    /\ cdf_relationships = before.relationships

NodesWithId(store, id) == { x \in DOMAIN store : store[x].external_id = id }

\* C1: when an asset or time series Create event is processed a second time right
\* after its first processing, the second processing does not fail, issues no call
\* that changes the Asset Graph, leaves it unchanged, and the graph holds exactly
\* one node with the event's external id.
CreateTwiceOneNode ==
    /\ (redelivered /\ TwinEvent("Create", ASSET)) =>
          /\ inc_pc # "raised"
          /\ calls = <<>>
          /\ GraphUnchanged
          /\ Cardinality(NodesWithId(cdf_assets, EventId)) = 1
    /\ (redelivered /\ TwinEvent("Create", TIMESERIES)) =>
          /\ inc_pc # "raised"
          /\ calls = <<>>
          /\ GraphUnchanged
          /\ Cardinality(NodesWithId(cdf_timeseries, EventId)) = 1

\* the store held the root alone, the first processing created the asset, and the
\* same event was processed again
CreateTwiceOneNodeWitness ==
    /\ redelivered
    /\ TwinEvent("Create", ASSET)
    /\ inc_pc = "loop"
    /\ result = FALSE
    /\ cdf_next_id = 3
    /\ DOMAIN cdf_assets = {ROOT_EXTERNAL_ID, EventId}

ParentCreate ==
    /\ event.kind = "Relationship"
    /\ event.op = "Create"
    /\ event.body.relationshipName = "parent"

\* the Twin Graph holds another parent edge from the child of the event
OtherParentEdge ==
    \E r \in adt_rels : /\ r.name = "parent"
                        /\ r.sourceId = event.body.sourceId
                        /\ r.relationshipId # event.body.relationshipId

\* C3: a parent relationship Create event processed while the Twin Graph holds
\* another parent edge from the same child (a different relationship id) is
\* rejected: the handler returns False, issues no call and the Asset Graph, the
\* stored parent included, is what it was before the event.
SingleParentRejected ==
    (ParentCreate /\ OtherParentEdge) =>
        /\ inc_pc # "raised"
        /\ result = FALSE
        /\ calls = <<>>
        /\ GraphUnchanged

\* the second parent edge of A (to the twin of "B:") arrives while the first (to the
\* root) is in the Twin Graph; both endpoints are in the Asset Graph and A keeps
\* the root as its parent
SingleParentRejectedWitness ==
    /\ ParentCreate
    /\ OtherParentEdge
    /\ event.body.relationshipId = <<"p", "2">>
    /\ "externalId" \in DOMAIN adt_twins[TwinB]
    /\ {TwinA, ExtB} \subseteq DOMAIN cdf_assets
    /\ result = FALSE
    /\ cdf_assets[TwinA].parent_external_id = ROOT_EXTERNAL_ID

\* C8: an asset Create event whose external id (the externalId of the body, the
\* subject when that is absent or empty) is not in the Asset Graph adds exactly one
\* node and changes no other: the node has that external id, the displayName of the
\* event as name (the twin id when there is none), the tag values of the event as
\* metadata, and the root as parent.
AssetCreateFields ==
    (TwinEvent("Create", ASSET) /\ EventId \notin DOMAIN before.assets) =>
        /\ inc_pc # "raised"
        /\ result = TRUE
        /\ DOMAIN cdf_assets = DOMAIN before.assets \cup {EventId}
        /\ \A x \in DOMAIN before.assets : cdf_assets[x] = before.assets[x]
        /\ cdf_assets[EventId].external_id = EventId
        /\ cdf_assets[EventId].name =
              (IF "displayName" \in DOMAIN event.body THEN event.body.displayName
               ELSE event.body.dtId)
        /\ IF "values" \in DOMAIN event.body.tags
           THEN cdf_assets[EventId].metadata = event.body.tags.values
           ELSE cdf_assets[EventId].metadata = None
        /\ cdf_assets[EventId].parent_external_id = ROOT_EXTERNAL_ID

\* the twin "B*" of the asset "B:" is created with displayName and tags
AssetCreateFieldsWitness ==
    /\ TwinEvent("Create", ASSET)
    /\ event.subject = TwinB
    /\ EventId = ExtB
    /\ EventId \notin DOMAIN before.assets
    /\ "displayName" \in DOMAIN event.body
    /\ "values" \in DOMAIN event.body.tags
    /\ cdf_assets[ExtB].name = <<"P", "1">>
    /\ cdf_assets[ExtB].metadata = <<[k |-> <<"P">>, v |-> "10"]>>

-----------------------------------------------------------------------------
(* Claims on CDF2ADT, under SpecSync *)

\* the twins that reach a twin of S by parent relationships of rels
RECURSIVE Below(_, _, _)
Below(rels, S, fuel) ==
    LET more == S \cup { r.sourceId : r \in { x \in rels : x.name = "parent"
                                                         /\ x.targetId \in S } }
    IN IF more = S \/ fuel = 0 THEN S ELSE Below(rels, more, fuel - 1)

RootTwin == convert_ext_id(ROOT_EXTERNAL_ID)

\* the asset twins under the root twin when the pass started
PassSubtree ==
    { t \in Below(pass_rels, {RootTwin}, Cardinality(DOMAIN pass_twins)) \ {RootTwin} :
        pass_twins[t].model = ASSET }

\* the twin ids of the source subtree the pass read
SourceIds == { convert_ext_id(asset_list[j].external_id) : j \in 1..Len(asset_list) }

Orphans == PassSubtree \ SourceIds

\* a pass with a checkpoint has completed
UpdatePassDone == sync_pc = "done" /\ sync_ts # 0

\* C6: when a pass that found a checkpoint has completed, no asset twin that was
\* under the root twin when the pass started and whose id is not the translated
\* external id of an asset of the source subtree is left in the Twin Graph, and no
\* relationship of the Twin Graph starts or ends at it.
OrphansDeleted ==
    UpdatePassDone =>
        \A t \in Orphans :
            /\ t \notin DOMAIN adt_twins
            /\ \A r \in adt_rels : r.sourceId # t /\ r.targetId # t

\* the twin ids of the nodes of the source: the assets and the time series
PresentIds ==
    { convert_ext_id(x) : x \in DOMAIN cdf_assets }
    \cup { convert_ext_id(x) : x \in DOMAIN cdf_timeseries }

\* C7: while a pass runs and after it, every twin that was in the Twin Graph when
\* the pass started and whose id is the translated external id of an asset or a
\* time series of the source, or the id of the root twin, is still in the Twin Graph.
PresentNeverDeleted ==
    sync_pc \notin {"idle", "start"} =>
        \A t \in DOMAIN pass_twins :
            (t \in PresentIds \/ t = RootTwin) => t \in DOMAIN adt_twins

\* a pass deleted the twins of X and Y and kept the twin "B*" of the asset "B:" and
\* the twin of the time series U
PresentNeverDeletedWitness ==
    /\ UpdatePassDone
    /\ SrcX \in DOMAIN pass_twins
    /\ SrcX \notin DOMAIN adt_twins
    /\ {TwinB, SrcU, RootTwin} \subseteq DOMAIN adt_twins
    /\ SrcB \in DOMAIN cdf_assets
    /\ SrcU \in DOMAIN cdf_timeseries

\* C10: when a pass has completed, every asset of the source that was changed after
\* the pass read the source subtree has a last-modified time greater than the
\* checkpoint the pass wrote.
LaterChangesAboveCheckpoint ==
    sync_pc = "done" =>
        \A x \in DOMAIN cdf_assets :
            cdf_assets[x].last_updated_time > read_clock * 1000 =>
                cdf_assets[x].last_updated_time
                    > get_last_exec_TS(func_runs, ROOT_EXTERNAL_ID) * 1000

\* the steps of a pass that ran to its end, without and with a checkpoint
InsertSteps ==
    <<"start", "read", "sample", "insert_assets", "insert_relationships",
      "insert_timeseries", "checkpoint">>

UpdateSteps ==
    <<"start", "read", "sample", "update_assets", "update_relationships",
      "update_timeseries", "delete_assets", "delete_relationships", "delete_timeseries",
      "checkpoint">>

\* C11: while a pass runs, and after it returned early, raised or hung, the checkpoint
\* file is what it was when the pass started; when the pass is done it has taken all
\* the steps of its branch, the write being the last and only one, and the file holds
\* for the root the time the pass sampled.
CheckpointOnceAfterAllSteps ==
    /\ sync_pc \notin {"idle", "start", "done"} => func_runs = pass_runs
    /\ sync_pc = "done" =>
          /\ pass_steps \in {InsertSteps, UpdateSteps}
          /\ func_runs # pass_runs
          /\ get_last_exec_TS(func_runs, ROOT_EXTERNAL_ID) = date_now
          /\ Len(func_runs) = IF pass_runs = <<>> THEN 1 ELSE Len(pass_runs)

\* a second pass, with a checkpoint, wrote its checkpoint over the one it found
CheckpointOnceAfterAllStepsWitness ==
    /\ sync_pc = "done"
    /\ pass_steps = UpdateSteps
    /\ pass_runs # <<>>
    /\ adt_twins # pass_twins
    /\ get_last_exec_TS(func_runs, ROOT_EXTERNAL_ID) > get_last_exec_TS(pass_runs, ROOT_EXTERNAL_ID)

\* the checkpoint the pass found for the root, 0 when it found none
FoundCheckpoint ==
    LET hits == { j \in 1..Len(pass_runs) :
                    pass_runs[j].root_asset_ext_id = ROOT_EXTERNAL_ID }
    IN IF hits = {} THEN 0
       ELSE pass_runs[CHOOSE j \in hits : \A l \in hits : j <= l].timestamp_UTC

FoundRootTwin == convert_ext_id(ROOT_EXTERNAL_ID) \in DOMAIN pass_twins

IsPrefixOf(s, t) == Len(s) <= Len(t) /\ \A j \in 1..Len(s) : s[j] = t[j]

\* C12: of a pass that found the root asset: with a checkpoint and no root twin it
\* returns after its first step, the Twin Graph and the checkpoint file being what
\* they were; with no checkpoint it takes the steps of the insert branch, root twin or
\* not; with a checkpoint and a root twin it takes the steps of the update branch.
GuardAndBranch ==
    (sync_pc \notin {"idle", "start"} /\ ROOT_EXTERNAL_ID \in DOMAIN cdf_assets) =>
        /\ (FoundCheckpoint # 0 /\ ~FoundRootTwin) =>
              /\ sync_pc = "returned"
              /\ pass_steps = <<"start">>
              /\ adt_twins = pass_twins /\ adt_rels = pass_rels
              /\ func_runs = pass_runs
        /\ FoundCheckpoint = 0 =>
              /\ sync_pc # "returned"
              /\ IsPrefixOf(pass_steps, InsertSteps)
        /\ (FoundCheckpoint # 0 /\ FoundRootTwin) =>
              /\ sync_pc # "returned"
              /\ IsPrefixOf(pass_steps, UpdateSteps)

\* a pass found a checkpoint and no root twin and returned
GuardAndBranchWitness ==
    /\ sync_pc = "returned"
    /\ ROOT_EXTERNAL_ID \in DOMAIN cdf_assets
    /\ FoundCheckpoint # 0
    /\ ~FoundRootTwin
    /\ adt_twins = <<>>

-----------------------------------------------------------------------------
(* Claims on the loop of ADT2CDF handle, under SpecParse *)

\* C13: while the number of events of the batch differs from the number of metadata
\* entries, no event has been dispatched (none was processed, no call was issued,
\* handle did not raise) and no step changes the Asset Graph.
BatchAbortedOnMismatch ==
    /\ [](metadata_len # events_len =>
            /\ event = NoEvent
            /\ eventIndex = 0
            /\ calls = <<>>
            /\ inc_pc \in {"start", "loop", "returned", "returned_none"})
    /\ [][metadata_len # events_len => UNCHANGED cdfVars]_vars

\* a batch of events with fewer metadata entries met an Asset Graph with the root, and
\* handle returned in its first iteration
BatchAbortedOnMismatchWitness ==
    /\ metadata_len # events_len
    /\ events_len > 0
    /\ ROOT_EXTERNAL_ID \in DOMAIN cdf_assets
    /\ inc_pc = "returned_none"
    /\ event = NoEvent

\* the event does not parse: its type is not of the enum, or a key is missing
Unparsable(ev) ==
    \/ ev.kind \notin {"Twin", "Relationship"}
    \/ ev.op \notin {"Create", "Update", "Delete"}
    \/ "subject" \notin DOMAIN ev
    \/ "model" \notin DOMAIN ev.body

\* C14: when the event processed last does not parse, handle has not raised, no call
\* was issued and the Asset Graph is what it was before the event: the loop goes on.
ParseFailureSkipped ==
    (event # NoEvent /\ Unparsable(event)) =>
        /\ inc_pc # "raised"
        /\ calls = <<>>
        /\ cdf_assets = before.assets
        /\ cdf_timeseries = before.timeseries

\* C15: when handle has ended on a batch with as many metadata entries as events, met
\* by an Asset Graph with the root, it has returned the number of events.
ReturnsCount ==
    (/\ inc_pc \in {"returned", "returned_none", "raised"}
     /\ metadata_len = events_len
     /\ ROOT_EXTERNAL_ID \in DOMAIN cdf_assets) =>
        /\ inc_pc = "returned"
        /\ eventIndex = events_len

-----------------------------------------------------------------------------
(* Claims on the Update events of twins, under SpecUpdate *)

\* the event processed last is an Update of a twin
UpdateEvent == event.kind = "Twin" /\ event.op = "Update"

\* the node the Update processed last names, as it was before the event: by the subject,
\* else by the externalId of the twin; <<>> when there is none
UpdatedBefore ==
    LET store == IF event.body.modelId = ASSET THEN before.assets ELSE before.timeseries
        twin == IF event.subject \in DOMAIN adt_twins THEN adt_twins[event.subject] ELSE <<>>
    IN IF event.subject \in DOMAIN store THEN store[event.subject]
       ELSE IF "externalId" \in DOMAIN twin /\ twin.externalId \in DOMAIN store
         THEN store[twin.externalId]
       ELSE <<>>

\* the op sets a field to the value the node has
SetsCurrentValue(node, action) ==
    /\ action.op \in {"add", "replace"}
    /\ \/ action.path = <<"displayName">> /\ action.value = node.name
       \/ action.path = <<"description">> /\ action.value = node.description
       \/ /\ action.path = <<"tags", "values">>
          /\ ~IsNone(node.metadata)
          /\ DictEq(action.value, node.metadata)
       \/ /\ Len(action.path) = 3
          /\ SubSeq(action.path, 1, 2) = <<"tags", "values">>
          /\ ~IsNone(node.metadata)
          /\ <<action.path[3], action.value>> \in DictItems(node.metadata)

\* C16: after an Update whose ops all set a field to the value the node has, and after
\* an Update that repeats the event before it, no call was issued and the Asset Graph
\* is what it was before the event.
UpdateOfCurrentValuesNoOp ==
    (/\ UpdateEvent
     /\ UpdatedBefore # <<>>
     /\ \/ /\ event.body.patch # <<>>
           /\ \A i \in 1..Len(event.body.patch) :
                 SetsCurrentValue(UpdatedBefore, event.body.patch[i])
        \/ redelivered) =>
        /\ calls = <<>>
        /\ GraphUnchanged

\* the op is on one of the immutable ids
IdAction(action) == action.path \in {<<"externalId">>, <<"id">>}

\* the event processed last without the ops on the immutable ids
WithoutIdActions ==
    [event EXCEPT !.body.patch = SelectSeq(@, LAMBDA action : ~IdAction(action))]

\* what processing WithoutIdActions does to the Asset Graph the event met
WithoutIdActionsOutcome ==
    handle_event(before @@ [calls |-> <<>>, error |-> ""], adt_twins, adt_rels, FALSE,
                 WithoutIdActions)

-----------------------------------------------------------------------------
(* Claims on the relationship events, under SpecRelationship *)

\* the event processed last is this operation on a relationship of this name
RelationshipEvent(op, name) ==
    /\ event.kind = "Relationship"
    /\ event.op = op
    /\ event.body.relationshipName = name

\* the external ids the twin id stands for in the store the event met: the id itself,
\* else the externalId of the twin
Resolved(store, digital_twin_id) ==
    IF digital_twin_id \in DOMAIN store THEN {digital_twin_id}
    ELSE { x \in DOMAIN store : /\ digital_twin_id \in DOMAIN adt_twins
                                /\ "externalId" \in DOMAIN adt_twins[digital_twin_id]
                                /\ adt_twins[digital_twin_id].externalId = x }

SourceResolved == Resolved(before.assets, event.body.sourceId)
TargetResolved ==
    Resolved(IF event.body.relationshipName = "contains"
             THEN before.timeseries ELSE before.assets, event.body.targetId)

\* C18: after a Create or Delete of a relationship whose source or target resolves
\* to no node of the Asset Graph, by its id or by the externalId of its twin, the
\* event is answered False, no call was issued, the Asset Graph is what it was and
\* handle goes on.
UnresolvedEndpointAborts ==
    (/\ event.kind = "Relationship"
     /\ event.op \in {"Create", "Delete"}
     /\ (SourceResolved = {} \/ TargetResolved = {})) =>
        /\ result = FALSE
        /\ calls = <<>>
        /\ GraphUnchanged
        /\ inc_pc # "raised"

\* the Create and the Delete of a parent relationship from a twin that does not
\* exist, and of a contains relationship from B* when B* has no externalId, were
\* answered False
UnresolvedEndpointAbortsWitness ==
    /\ event.kind = "Relationship"
    /\ event.op = "Delete"
    /\ event.body.relationshipName = "contains"
    /\ event.body.sourceId = TwinB
    /\ SourceResolved = {}
    /\ TargetResolved # {}
    /\ result = FALSE
    /\ inc_pc = "loop"
    /\ eventIndex = 2

\* the contains relationships of the Twin Graph into the target of the event, other
\* than the relationship of the event
OtherContainsEdges ==
    { r \in adt_rels : /\ r.name = "contains"
                       /\ r.targetId = event.body.targetId
                       /\ r.relationshipId # event.body.relationshipId }

\* the parent relationships of the Twin Graph from the source of the event, other
\* than the relationship of the event
OtherParentEdges ==
    { r \in adt_rels : /\ r.name = "parent"
                       /\ r.sourceId = event.body.sourceId
                       /\ r.relationshipId # event.body.relationshipId }

\* C19: after a Create of a contains relationship whose endpoints resolve: when the
\* Twin Graph holds another contains relationship into the same time series, the
\* event is answered False, no call was issued and the Asset Graph is what it was;
\* otherwise the time series is linked to the source asset of the event.
ContainsCreateSingleLink ==
    (/\ RelationshipEvent("Create", "contains")
     /\ SourceResolved # {}
     /\ TargetResolved # {}) =>
        IF OtherContainsEdges # {}
        THEN /\ result = FALSE
             /\ calls = <<>>
             /\ GraphUnchanged
        ELSE /\ inc_pc # "raised"
             /\ \A t \in TargetResolved : \A a \in SourceResolved :
                   cdf_timeseries[t].asset_id = before.assets[a].id

\* a Create of the contains relationship c2 from B* was rejected while the Twin Graph
\* held c3 into the same time series
ContainsCreateSingleLinkWitness ==
    /\ RelationshipEvent("Create", "contains")
    /\ event.body.sourceId = TwinB
    /\ SourceResolved = {ExtB}
    /\ TargetResolved = {TwinT}
    /\ OtherContainsEdges # {}
    /\ before.timeseries[TwinT].asset_id # 3
    /\ result = FALSE

\* a Create of the contains relationship c1 from A, the only one into T, linked T to A
ContainsCreateLinkedWitness ==
    /\ RelationshipEvent("Create", "contains")
    /\ event.body.sourceId = TwinA
    /\ TargetResolved = {TwinT}
    /\ OtherContainsEdges = {}
    /\ before.timeseries[TwinT].asset_id # 2
    /\ cdf_timeseries[TwinT].asset_id = 2
    /\ result = TRUE

-----------------------------------------------------------------------------
(* Claims on the relatesTo relationships *)

\* the labels the event body references, as create_relationship splits them
ReferencedLabels ==
    IF "labels" \in DOMAIN event.body THEN SeqToSet(split(event.body.labels, ",")) ELSE {}

\* C21: after a relatesTo Create whose endpoints resolve, whose relationship does not
\* exist yet and one of whose referenced labels has no label definition with that
\* external id, the create was aborted: the event is answered False, no call was
\* issued, handle goes on, and neither a relationship nor a label definition was
\* created.
MissingLabelAbortsCreate ==
    (/\ RelationshipEvent("Create", "relatesTo")
     /\ SourceResolved # {} /\ TargetResolved # {}
     /\ event.body.relationshipId \notin DOMAIN before.relationships
     /\ \E l \in ReferencedLabels : l \notin before.labels) =>
        /\ result = FALSE
        /\ calls = <<>>
        /\ inc_pc # "raised"
        /\ cdf_relationships = before.relationships
        /\ cdf_labels = before.labels

\* the last event is an Update of the labels of an existing relationship: the first
\* op of its patch is on /labels and its subject names a relationship of the store
LabelsUpdateEvent ==
    /\ event.kind = "Relationship"
    /\ event.op = "Update"
    /\ "patch" \in DOMAIN event.body
    /\ event.body.patch # <<>>
    /\ event.body.patch[1].path = <<"labels">>
    /\ Len(split(event.subject, "/")) = 3
    /\ split(event.subject, "/")[2] = RELATIONSHIPS
    /\ split(event.subject, "/")[3] \in DOMAIN before.relationships

UpdatedRelationship == split(event.subject, "/")[3]

\* the new label set of the event and the label set the store held before it
NewLabels ==
    IF "value" \in DOMAIN event.body.patch[1] /\ event.body.patch[1].value # <<>>
    THEN SeqToSet(split(event.body.patch[1].value, ","))
    ELSE {}

StoredLabels == SeqToSet(before.relationships[UpdatedRelationship].labels)

RelationshipUpdateCalls == { i \in 1..Len(calls) : calls[i].api = "relationships.update" }

LabelDeltaNoneWitness ==
    /\ LabelsUpdateEvent
    /\ StoredLabels = {<<"L">>}
    /\ NewLabels = {<<"L">>}
    /\ calls = <<>>
    /\ result = TRUE
    /\ inc_pc = "loop"

\* the relationship the store recorded under the id of the event has the source and
\* the target of the event
RecordedAsEvent ==
    /\ before.relationships[event.body.relationshipId].source_external_id
           = event.body.sourceId
    /\ before.relationships[event.body.relationshipId].target_external_id
           = event.body.targetId

\* C23: after a relatesTo Delete whose endpoints resolve, the relationship of the
\* event is gone, by one relationships.delete call, exactly when the store held it with
\* the source and the target of the event; when the store held it with another source
\* or target nothing was called, the Asset Graph is what it was, the event is answered
\* True and handle goes on; when the store did not hold it nothing was called and
\* handle goes on.  No other relationship is touched.
StaleDeleteKept ==
    (/\ RelationshipEvent("Delete", "relatesTo")
     /\ SourceResolved # {} /\ TargetResolved # {}) =>
        /\ inc_pc # "raised"
        /\ cdf_assets = before.assets
        /\ cdf_timeseries = before.timeseries
        /\ IF event.body.relationshipId \notin DOMAIN before.relationships
           THEN calls = <<>> /\ cdf_relationships = before.relationships /\ result = FALSE
           ELSE IF RecordedAsEvent
           THEN /\ calls = <<[api |-> "relationships.delete",
                             external_id |-> event.body.relationshipId]>>
                /\ cdf_relationships = Without(before.relationships,
                                               event.body.relationshipId)
                /\ result = TRUE
           ELSE calls = <<>> /\ cdf_relationships = before.relationships /\ result = TRUE

\* the Delete of r1 from C to A met the relationship r1 from A to C and left it
StaleDeleteKeptWitness ==
    /\ RelationshipEvent("Delete", "relatesTo")
    /\ event.body.relationshipId = <<"r", "1">>
    /\ event.body.sourceId = TwinC
    /\ <<"r", "1">> \in DOMAIN before.relationships
    /\ ~RecordedAsEvent
    /\ <<"r", "1">> \in DOMAIN cdf_relationships
    /\ result = TRUE
    /\ inc_pc = "loop"

\* the Delete of r1 from A to C met the relationship r1 from A to C and deleted it
MatchingDeleteWitness ==
    /\ RelationshipEvent("Delete", "relatesTo")
    /\ event.body.relationshipId = <<"r", "1">>
    /\ <<"r", "1">> \in DOMAIN before.relationships
    /\ RecordedAsEvent
    /\ <<"r", "1">> \notin DOMAIN cdf_relationships
    /\ result = TRUE
    /\ inc_pc = "loop"

-----------------------------------------------------------------------------
(* Claims on the latest value of a time series, under SpecLatestValue *)

\* the ops of the last event on the path
OpsOn(path) ==
    { i \in 1..Len(event.body.patch) : event.body.patch[i].path = path }

\* the last event is an Update of an existing time series that carries a latest
\* value and its timestamp, and the value it carries
CarriesLatestValue ==
    /\ event.kind = "Twin"
    /\ event.op = "Update"
    /\ event.body.modelId = TIMESERIES
    /\ event.subject \in DOMAIN before.timeseries
    /\ \E i \in OpsOn(<<"latestValue">>) : event.body.patch[i].op # "remove"
    /\ \E i \in OpsOn(<<"timestamp">>) : event.body.patch[i].op # "remove"

CarriedValue ==
    event.body.patch[CHOOSE i \in OpsOn(<<"latestValue">>) : TRUE].value

\* the type of the carried value does not fit the series: a number for a string
\* series, a text for a numeric series that has a datapoint
IncompatibleValue ==
    LET timeseries == before.timeseries[event.subject]
    IN IF CarriedValue \in {"1.5", "2.5"}
       THEN timeseries.is_string
       ELSE ~timeseries.is_string /\ event.subject \in DOMAIN before.datapoints

\* C24: an Update of a time series that carries a latest value of a type that does
\* not fit the series changes nothing in the Asset Graph: no call is issued, no
\* datapoint is inserted and no field of the series is updated.
IncompatibleValueChangesNothing ==
    (CarriesLatestValue /\ IncompatibleValue) =>
        /\ calls = <<>>
        /\ GraphUnchanged

-----------------------------------------------------------------------------
(* Claims on events that find nothing to do *)

\* the node a Create is to make is in the Asset Graph already
NodeAlreadyExists ==
    \/ TwinEvent("Create", ASSET) /\ EventId \in DOMAIN before.assets
    \/ TwinEvent("Create", TIMESERIES) /\ EventId \in DOMAIN before.timeseries

\* the parent a parent Create asks for is the parent the asset has, and the twin has
\* no other parent relationship
ParentAlreadySet ==
    /\ RelationshipEvent("Create", "parent")
    /\ SourceResolved # {} /\ TargetResolved # {}
    /\ OtherParentEdges = {}
    /\ \A s \in SourceResolved : before.assets[s].parent_external_id \in TargetResolved

\* the asset a contains Create asks for is the asset the time series is linked to,
\* and the twin has no other contains relationship
LinkAlreadySet ==
    /\ RelationshipEvent("Create", "contains")
    /\ SourceResolved # {} /\ TargetResolved # {}
    /\ OtherContainsEdges = {}
    /\ \A s \in SourceResolved, t \in TargetResolved :
          before.timeseries[t].asset_id = before.assets[s].id

\* the relationship a relatesTo Create is to make is in the Asset Graph already
RelationshipAlreadyExists ==
    /\ RelationshipEvent("Create", "relatesTo")
    /\ SourceResolved # {} /\ TargetResolved # {}
    /\ event.body.relationshipId \in DOMAIN before.relationships

\* a Delete of a relationship that the Asset Graph holds with other endpoints: another
\* parent, another linked asset, another source or target
DeleteOfDiverged ==
    /\ event.kind = "Relationship" /\ event.op = "Delete"
    /\ SourceResolved # {} /\ TargetResolved # {}
    /\ \/ /\ event.body.relationshipName = "parent"
          /\ \A s \in SourceResolved :
                before.assets[s].parent_external_id \notin TargetResolved
       \/ /\ event.body.relationshipName = "contains"
          /\ \A s \in SourceResolved, t \in TargetResolved :
                before.timeseries[t].asset_id # before.assets[s].id
       \/ /\ event.body.relationshipName = "relatesTo"
          /\ event.body.relationshipId \in DOMAIN before.relationships
          /\ ~RecordedAsEvent

NothingToDo ==
    \/ NodeAlreadyExists
    \/ ParentAlreadySet
    \/ LinkAlreadySet
    \/ RelationshipAlreadyExists
    \/ DeleteOfDiverged

\* C25: an event that finds the Asset Graph in the state it asks for, or a Delete of
\* a relationship that the Asset Graph holds with other endpoints, issues no call,
\* leaves the Asset Graph as it was and is answered True (success).
NothingToDoIsSuccess ==
    NothingToDo =>
        /\ calls = <<>>
        /\ GraphUnchanged
        /\ inc_pc # "raised"
        /\ result = TRUE

-----------------------------------------------------------------------------
(* Claims on invocations that overlap, under SpecOverlap *)

\* the timestamp the blob file holds for the root, 0 when it holds none
Checkpoint(root_ext_id) ==
    LET hits == { j \in 1..Len(func_runs) : func_runs[j].root_asset_ext_id = root_ext_id }
    IN IF hits = {} THEN 0
       ELSE func_runs[CHOOSE j \in hits : \A l \in hits : j <= l].timestamp_UTC

\* C26: invocations for the same root are not kept apart.  Every upload writes the
\* timestamp of its own invocation over whatever the file held for the root: after
\* any uploads the file holds, for the root of the last upload, the timestamp that
\* upload wrote, also when an earlier upload of an invocation that had read the same
\* checkpoint wrote another one.  (The overlap itself is the witness.)
LaterWriteOverwrites ==
    ov_uploads # <<>> =>
        LET last == ov_uploads[Len(ov_uploads)]
        IN /\ Checkpoint(last.root_asset_ext_id) = last.timestamp_UTC
           /\ ov_pass[last.invocation].pc = "done"
           /\ ov_pass[last.invocation].date_now = last.timestamp_UTC

\* two invocations for the root R both read no checkpoint, both ran the first-pass
\* insert, both uploaded, each its own timestamp, and the file holds the later upload
LaterWriteOverwritesWitness ==
    /\ Len(ov_uploads) = 2
    /\ ov_uploads[1].root_asset_ext_id = ROOT_EXTERNAL_ID
    /\ ov_uploads[2].root_asset_ext_id = ROOT_EXTERNAL_ID
    /\ ov_uploads[1].invocation # ov_uploads[2].invocation
    /\ ov_uploads[1].sync_ts = 0
    /\ ov_uploads[2].sync_ts = 0
    /\ ov_uploads[1].timestamp_UTC # ov_uploads[2].timestamp_UTC
    /\ Checkpoint(ROOT_EXTERNAL_ID) = ov_uploads[2].timestamp_UTC
    /\ \A p \in {1, 2} : ov_pass[p].pc = "done"

\* the same with a checkpoint: both invocations read the checkpoint 1 and ran the
\* update branch, and the upload that came last wrote the earlier timestamp
EarlierTimestampLastWitness ==
    /\ Len(ov_uploads) = 2
    /\ ov_uploads[1].root_asset_ext_id = ROOT_EXTERNAL_ID
    /\ ov_uploads[2].root_asset_ext_id = ROOT_EXTERNAL_ID
    /\ ov_uploads[1].sync_ts = 1
    /\ ov_uploads[2].sync_ts = 1
    /\ ov_uploads[2].timestamp_UTC < ov_uploads[1].timestamp_UTC
    /\ Checkpoint(ROOT_EXTERNAL_ID) = ov_uploads[2].timestamp_UTC

\* the uploads for the root, as indices of ov_uploads
UploadsFor(root_ext_id) ==
    { i \in 1..Len(ov_uploads) : ov_uploads[i].root_asset_ext_id = root_ext_id }

\* C27: an entry of the blob file is never removed and is changed only by an upload
\* for its root, however the invocations interleave: a root for which an invocation
\* has uploaded has the entry that the last upload for this root wrote, and a root
\* that had an entry when the invocations started and for which none has uploaded
\* has the entry it had.
CheckpointNeverRemoved ==
    /\ \A i \in 1..Len(ov_uploads) :
          (\A j \in UploadsFor(ov_uploads[i].root_asset_ext_id) : j <= i) =>
              Checkpoint(ov_uploads[i].root_asset_ext_id) = ov_uploads[i].timestamp_UTC
    /\ \A k \in 1..Len(pass_runs) :
          UploadsFor(pass_runs[k].root_asset_ext_id) = {} =>
              Checkpoint(pass_runs[k].root_asset_ext_id) = pass_runs[k].timestamp_UTC

\* the twins the walk of the pass lists, in the order it lists them
WalkedList ==
    twins_below([twins |-> pass_twins, rels |-> pass_rels, error |-> "", log |-> <<>>],
                <<convert_ext_id(ROOT_EXTERNAL_ID)>>, Cardinality(DOMAIN pass_twins))

\* C28: the discovery of the orphan subtree ends for every Twin Graph, parent cycles
\* and twins reachable by several parent paths included, and lists each twin under
\* the root twin at most once
OrphanWalkTerminates ==
    pass_steps = <<"delete_assets">> =>
        /\ sync_pc # "hangs"
        /\ \A i, j \in 1..Len(WalkedList) : WalkedList[i] = WalkedList[j] => i = j

\* the assets of the subtree the pass read that were modified after the checkpoint
ModifiedAssets ==
    { j \in 1..Len(asset_list) : asset_list[j].last_updated_time > sync_ts * 1000 }

\* the twin of the asset has the asset's displayName, description and metadata
TwinCarries(a) ==
    LET t == convert_ext_id(a.external_id)
    IN /\ t \in DOMAIN adt_twins
       /\ "displayName" \in DOMAIN adt_twins[t] /\ adt_twins[t].displayName = a.name
       /\ DescriptionEqual(a, adt_twins[t])
       /\ DictEq(twin_values(adt_twins[t]), convert_metadata(a.metadata))

\* the twin of the asset, absent when the pass started, has its parent relationship
CreatedWithParent(a) ==
    LET t == convert_ext_id(a.external_id)
    IN (t \notin DOMAIN pass_twins /\ a.parent_external_id # <<>>) =>
           \E r \in adt_rels : /\ r.name = "parent" /\ r.sourceId = t
                               /\ r.targetId = convert_ext_id(a.parent_external_id)

\* the twin of the asset is what it was when the pass started, none if there was none
TwinUntouched(a) ==
    LET t == convert_ext_id(a.external_id)
    IN IF t \in DOMAIN pass_twins
       THEN t \in DOMAIN adt_twins /\ adt_twins[t] = pass_twins[t]
       ELSE t \notin DOMAIN adt_twins

\* C29: when a pass that found a checkpoint has completed, every asset of the subtree
\* it read whose last_updated_time is above the checkpoint has a twin with the asset's
\* displayName, description and translated metadata, created with its parent
\* relationship when there was none; the twin of every other asset of the subtree is
\* what it was when the pass started, and none was created for it.
ModifiedAssetsSynced ==
    UpdatePassDone =>
        \A j \in 1..Len(asset_list) :
            IF j \in ModifiedAssets
            THEN TwinCarries(asset_list[j]) /\ CreatedWithParent(asset_list[j])
            ELSE TwinUntouched(asset_list[j])

\* a pass created the twin of the new asset Z with its parent relationship and
\* brought the twin of A, changed in all three fields, up to date
ModifiedAssetsSyncedWitness ==
    /\ UpdatePassDone
    /\ \E j \in ModifiedAssets : /\ asset_list[j].external_id = SrcZ
                                 /\ SrcZ \notin DOMAIN pass_twins
                                 /\ SrcZ \in DOMAIN adt_twins
    /\ \E j \in ModifiedAssets : /\ asset_list[j].external_id = TwinA
                                 /\ pass_twins[TwinA].displayName # asset_list[j].name
                                 /\ TwinCarries(asset_list[j])
    /\ \E j \in 1..Len(asset_list) : j \notin ModifiedAssets

ParentEdges(t) == { r \in adt_rels : r.name = "parent" /\ r.sourceId = t }
ContainsEdges(t) == { r \in adt_rels : r.name = "contains" /\ r.targetId = t }

\* the external id of the asset with the internal id, <<>> when there is none
OwningAsset(asset_id) ==
    LET hits == { x \in DOMAIN cdf_assets : cdf_assets[x].id = asset_id }
    IN IF hits = {} THEN <<>> ELSE CHOOSE x \in hits : TRUE

\* the source is what the pass read: no asset of the subtree and no time series was
\* changed since
ReadCurrentSource ==
    /\ asset_list = retrieve_subtree(World, ROOT_EXTERNAL_ID)
    /\ \A x \in DOMAIN cdf_timeseries :
          cdf_timeseries[x].last_updated_time <= read_clock * 1000

AtMostOneStructuralEdge ==
    \A t \in DOMAIN adt_twins :
        /\ adt_twins[t].model = ASSET => Cardinality(ParentEdges(t)) <= 1
        /\ adt_twins[t].model = TIMESERIES => Cardinality(ContainsEdges(t)) <= 1

StructuralEdgesCurrent ==
    /\ \A x \in DOMAIN cdf_assets :
          \A r \in ParentEdges(convert_ext_id(x)) :
              r.targetId = convert_ext_id(cdf_assets[x].parent_external_id)
    /\ \A x \in DOMAIN cdf_timeseries :
          \A r \in ContainsEdges(convert_ext_id(x)) :
              r.sourceId = convert_ext_id(OwningAsset(cdf_timeseries[x].asset_id))

\* C30: starting from an empty Twin Graph, when a pass has completed every asset twin
\* has at most one parent relationship and every time series twin at most one incoming
\* contains relationship, and, the source being what the pass read, that relationship
\* leads to the twin of the parent the asset has in the source, from the twin of the
\* asset the time series is linked to.
SingleStructuralParent ==
    sync_pc = "done" =>
        /\ AtMostOneStructuralEdge
        /\ ReadCurrentSource => StructuralEdgesCurrent

\* the calls the pass made on the Twin Graph in the step
StepCalls(step) == SelectSeq(pass_calls, LAMBDA c : c.step = step)

\* the calls of update_asset_to_asset_relationships that name the relationship id
RelationshipCalls(id) ==
    SelectSeq(StepCalls("update_relationships"), LAMBDA c : c.rel = id)

Apis(cs) == [j \in 1..Len(cs) |-> cs[j].api]

\* the relationships of the source between assets of the subtree, modified since the
\* checkpoint the pass found
ModifiedRelationships ==
    { x \in DOMAIN cdf_relationships :
        /\ cdf_relationships[x].source_external_id \in SeqToSet(external_ids(asset_list))
        /\ cdf_relationships[x].target_external_id \in SeqToSet(external_ids(asset_list))
        /\ cdf_relationships[x].last_updated_time >= sync_ts * 1000 }

\* the relatesTo relationships with the id that left a twin of the subtree when the
\* pass started
TwinSide(id) ==
    { r \in pass_rels : /\ r.name = "relatesTo" /\ r.relationshipId = id
                        /\ r.sourceId \in SeqToSet(converted_ids(asset_list)) }

LabelsOf(r) == IF "labels" \in DOMAIN r THEN r.labels ELSE <<>>

EndpointsAgree(rel, r) ==
    /\ r.sourceId = convert_ext_id(rel.source_external_id)
    /\ r.targetId = convert_ext_id(rel.target_external_id)

\* the Twin Graph holds the relationship with the endpoints and labels of the source
Recreated(rel) ==
    \E r \in adt_rels : /\ r.name = "relatesTo" /\ r.relationshipId = rel.external_id
                        /\ EndpointsAgree(rel, r)
                        /\ LabelsOf(r) = join(",", rel.labels)

\* C31: in a pass that found a checkpoint, for every relationship of the source
\* modified since: when the Twin Graph has no relationship of its id, one is inserted
\* with the id, the endpoints and the labels of the source; when it has one with
\* another source or target, that one is deleted and then the new one inserted; when
\* the endpoints agree, one patch of the labels is issued if they differ and no call
\* at all if they are equal.
RelationshipsReconciled ==
    "update_relationships" \in SeqToSet(pass_steps) =>
        \A x \in ModifiedRelationships :
            LET rel == cdf_relationships[x]
                cs == RelationshipCalls(x)
                old == TwinSide(x)
                r == CHOOSE e \in old : TRUE
                inserted(c) == /\ c.api = "upsert_relationship"
                               /\ c.id = convert_ext_id(rel.source_external_id)
                               /\ c.target = convert_ext_id(rel.target_external_id)
            IN IF old = {}
               THEN Len(cs) = 1 /\ inserted(cs[1]) /\ Recreated(rel)
               ELSE IF ~EndpointsAgree(rel, r)
               THEN /\ Len(cs) = 2
                    /\ cs[1].api = "delete_relationship" /\ cs[1].id = r.sourceId
                    /\ inserted(cs[2])
                    /\ Recreated(rel)
                    /\ r \notin adt_rels
               ELSE IF LabelsOf(r) # join(",", rel.labels)
               THEN Apis(cs) = <<"update_relationship">>
               ELSE cs = <<>>

\* a pass moved q1 to its new endpoints, deleting the old relationship first
RelationshipsReconciledWitness ==
    /\ "update_relationships" \in SeqToSet(pass_steps)
    /\ RelQ \in ModifiedRelationships
    /\ TwinSide(RelQ) # {}
    /\ \A r \in TwinSide(RelQ) : ~EndpointsAgree(cdf_relationships[RelQ], r)
    /\ Apis(RelationshipCalls(RelQ)) = <<"delete_relationship", "upsert_relationship">>
    /\ Recreated(cdf_relationships[RelQ])

\* a pass patched the labels of q1, its endpoints being the same
LabelsPatchedWitness ==
    /\ "update_relationships" \in SeqToSet(pass_steps)
    /\ RelQ \in ModifiedRelationships
    /\ Apis(RelationshipCalls(RelQ)) = <<"update_relationship">>
    /\ sync_pc # "raised"

\* the calls of the pass that delete a twin
TwinDeletes == SelectSeq(pass_calls, LAMBDA c : c.api = "delete_digital_twin")

\* C32: whenever a pass calls delete_digital_twin, the twin it names has no outgoing
\* and no incoming relationship left in the Twin Graph.
NoCascadeDeletion ==
    \A j \in 1..Len(TwinDeletes) : TwinDeletes[j].left = 0

\* a pass without a checkpoint over an empty Twin Graph has completed
FirstBulkPassDone ==
    sync_pc = "done" /\ sync_ts = 0 /\ pass_twins = <<>> /\ pass_rels = {}

\* the relationships of the source between assets of the subtree the pass read
SubtreeRelationships ==
    { x \in DOMAIN cdf_relationships :
        /\ cdf_relationships[x].source_external_id \in SeqToSet(external_ids(asset_list))
        /\ cdf_relationships[x].target_external_id \in SeqToSet(external_ids(asset_list)) }

\* the time series of the source linked to an asset of the subtree the pass read
LinkedTimeseries ==
    { x \in DOMAIN cdf_timeseries :
        \E j \in 1..Len(asset_list) : asset_list[j].id = cdf_timeseries[x].asset_id }

TwinsOfModel(model) == { t \in DOMAIN adt_twins : adt_twins[t].model = model }
EdgesNamed(name) == { r \in adt_rels : r.name = name }

\* the steps in which the calls of the pass were made, in the order of the calls
CallSteps == [j \in 1..Len(pass_calls) |-> pass_calls[j].step]

\* C33: a pass without a checkpoint over an empty Twin Graph that has completed took
\* the steps insert_assets, insert_asset_to_asset_relationships, insert_timeseries in
\* this order, and left one twin per asset of the subtree, one parent relationship
\* per asset but the root (to the twin of its parent), one relatesTo relationship per
\* relationship of the source between subtree assets, and one twin per time series
\* linked to a subtree asset, with one contains relationship, from the twin of that
\* asset, and with the latest value and timestamp when the series has a datapoint.
FirstPassBuildsGraph ==
    FirstBulkPassDone =>
        /\ pass_steps = InsertSteps
        /\ \A i, j \in 1..Len(pass_calls) :
              i < j => ~(\/ /\ CallSteps[i] = "insert_timeseries"
                            /\ CallSteps[j] # "insert_timeseries"
                         \/ /\ CallSteps[i] = "insert_relationships"
                            /\ CallSteps[j] = "insert_assets")
        /\ TwinsOfModel(ASSET) = SourceIds
        /\ Cardinality(SourceIds) = Len(asset_list)
        /\ Cardinality(EdgesNamed("parent")) = Len(asset_list) - 1
        /\ \A j \in 2..Len(asset_list) :
              \E r \in EdgesNamed("parent") :
                  /\ r.sourceId = convert_ext_id(asset_list[j].external_id)
                  /\ r.targetId = convert_ext_id(asset_list[j].parent_external_id)
        /\ Cardinality(EdgesNamed("relatesTo")) = Cardinality(SubtreeRelationships)
        /\ \A x \in SubtreeRelationships :
              \E r \in EdgesNamed("relatesTo") :
                  /\ r.relationshipId = x
                  /\ r.sourceId = convert_ext_id(cdf_relationships[x].source_external_id)
                  /\ r.targetId = convert_ext_id(cdf_relationships[x].target_external_id)
        /\ TwinsOfModel(TIMESERIES) = { convert_ext_id(x) : x \in LinkedTimeseries }
        /\ Cardinality(TwinsOfModel(TIMESERIES)) = Cardinality(LinkedTimeseries)
        /\ Cardinality(EdgesNamed("contains")) = Cardinality(LinkedTimeseries)
        /\ \A x \in LinkedTimeseries :
              LET t == convert_ext_id(x)
              IN /\ \E r \in EdgesNamed("contains") :
                        /\ r.targetId = t
                        /\ r.sourceId = convert_ext_id(OwningAsset(cdf_timeseries[x].asset_id))
                 /\ IF x \in DOMAIN cdf_datapoints
                    THEN /\ {"latestValue", "timestamp"} \subseteq DOMAIN adt_twins[t]
                         /\ adt_twins[t].latestValue = cdf_datapoints[x].value
                         /\ adt_twins[t].timestamp = cdf_datapoints[x].timestamp
                    ELSE {"latestValue", "timestamp"} \cap DOMAIN adt_twins[t] = {}

\* a first pass made the twins of five assets, of the relationships q1 and q2 and of
\* the time series T, with a datapoint, and U, without
FirstPassBuildsGraphWitness ==
    /\ FirstBulkPassDone
    /\ Len(asset_list) = 5
    /\ Cardinality(SubtreeRelationships) = 2
    /\ LinkedTimeseries = {TwinT, SrcU}
    /\ TwinT \in DOMAIN cdf_datapoints /\ SrcU \notin DOMAIN cdf_datapoints
    /\ "latestValue" \in DOMAIN adt_twins[TwinT]

\* the Twin Graph the pass found is the one a first pass makes of the source as it is
\* now, and the source is what the pass read
FoundSynced ==
    /\ pass_twins = FirstPass(World).twins
    /\ pass_rels = FirstPass(World).rels
    /\ asset_list = retrieve_subtree(World, ROOT_EXTERNAL_ID)

\* C34: a pass with a checkpoint that has completed, run on a Twin Graph that is what
\* a first pass makes of the source, the source being unchanged, has made no call that
\* creates, updates or deletes a twin or a relationship, has left the Twin Graph as
\* it found it, and has moved the checkpoint forward.
UnchangedPassIsFixpoint ==
    (UpdatePassDone /\ FoundSynced) =>
        /\ pass_calls = <<>>
        /\ adt_twins = pass_twins /\ adt_rels = pass_rels
        /\ get_last_exec_TS(func_runs, ROOT_EXTERNAL_ID) = date_now
        /\ date_now > sync_ts

\* such a pass over a source with relationships, with labels and without, and time
\* series, with a datapoint and without
UnchangedPassIsFixpointWitness ==
    /\ UpdatePassDone /\ FoundSynced
    /\ Len(asset_list) = 5
    /\ Cardinality(SubtreeRelationships) = 2
    /\ LinkedTimeseries = {TwinT, SrcU}
    /\ pass_steps = UpdateSteps

-----------------------------------------------------------------------------
(* Claims on the calls of check_and_insert_datapoint, under SpecLatestValue *)

\* the places of the calls of the api in the calls of the last event
CallsOf(api) == { i \in 1..Len(calls) : calls[i].api = api }

\* the call at place k is a lookup of the time series that found it or not
Lookup(k, external_id, found) ==
    /\ calls[k].api = "time_series.retrieve"
    /\ calls[k].external_id = external_id
    /\ calls[k].found = found

\* C35: when the handler of an Update or a Create deletes a time series to convert it
\* to a string series, it creates the series again later, every call between the
\* delete and the create is a lookup of the series, the last of them is the only one
\* that did not return it, and every datapoint insert of the event follows the create.
ConversionOrdered ==
    (event.kind = "Twin" /\ event.op # "Delete") =>
        \A i \in CallsOf("time_series.delete") :
            \E k \in CallsOf("time_series.create") :
                /\ i < k - 1
                /\ calls[k].external_id = calls[i].external_id
                /\ \A l \in (i + 1)..(k - 2) : Lookup(l, calls[i].external_id, TRUE)
                /\ Lookup(k - 1, calls[i].external_id, FALSE)
                /\ \A j \in CallsOf("datapoints.insert") : j > k

\* a numeric series without a datapoint got the text value "abc": it was deleted, two
\* lookups still returned it, the third did not, it was created as a string series
\* and the datapoint was inserted
ConversionOrderedWitness ==
    /\ CarriesLatestValue
    /\ CarriedValue = "abc"
    /\ ~before.timeseries[event.subject].is_string
    /\ event.subject \notin DOMAIN before.datapoints
    /\ \E i \in CallsOf("time_series.delete") :
          /\ Lookup(i + 1, event.subject, TRUE) /\ Lookup(i + 2, event.subject, TRUE)
          /\ Lookup(i + 3, event.subject, FALSE)
          /\ calls[i + 4].api = "time_series.create"
          /\ calls[i + 5].api = "datapoints.insert"
    /\ cdf_timeseries[event.subject].is_string
    /\ cdf_datapoints[event.subject].value = "abc"
    /\ inc_pc = "loop"

-----------------------------------------------------------------------------
(* Claims on the inputs of Diff and Apply, under SpecDiff *)

\* C36: after get_update_patches the twin dict it was handed is what it was, and
\* after fetch_changes_to_CDF_record the record it was handed is what it was.
InputsLeftUnchanged ==
    /\ diff_pc \in {"diffed", "applied"} => diff_twin_after = diff_twin
    /\ diff_pc = "applied" => apply_record_after = apply_record

-----------------------------------------------------------------------------
(* Claims on the ids of the calls of a pass, under SpecReconcile *)

\* the id has no character that convert_ext_id replaces
Translated(id) == convert_ext_id(id) = id

\* C37: every call a pass makes on the Twin Graph names the twin, and the target of a
\* relationship it inserts, by a translated external id.
CallsUseTranslatedIds ==
    \A j \in 1..Len(pass_calls) :
        Translated(pass_calls[j].id) /\ Translated(pass_calls[j].target)

\* the timestamp the last event gives with its latest value, in milliseconds
GivenTimestamp ==
    LET ops == OpsOn(<<"timestamp">>)
    IN event.body.patch[CHOOSE i \in ops : \A j \in ops : i <= j].value * 1000

\* the series of the last event had a datapoint, of this timestamp
HadDatapoint == event.subject \in DOMAIN before.datapoints
LatestTimestamp == before.datapoints[event.subject].timestamp

DatapointInserted == CallsOf("datapoints.insert") # {}

\* C38: the handler of an Update inserts a datapoint only when the event carries a
\* latest value and the series had no datapoint or one with an earlier timestamp than
\* the event gives; an event that gives the timestamp of the latest datapoint or an
\* earlier one, and an event delivered a second time, insert nothing and leave the
\* latest datapoint of every series as it was; a latest datapoint is only ever
\* replaced by a later one.
InsertOnlyLater ==
    (event.kind = "Twin" /\ event.op = "Update") =>
        /\ DatapointInserted =>
              /\ CarriesLatestValue
              /\ ~HadDatapoint \/ LatestTimestamp < GivenTimestamp
        /\ (CarriesLatestValue /\ HadDatapoint /\ GivenTimestamp <= LatestTimestamp) =>
              ~DatapointInserted /\ cdf_datapoints = before.datapoints
        /\ (CarriesLatestValue /\ redelivered) =>
              ~DatapointInserted /\ cdf_datapoints = before.datapoints
        /\ \A x \in DOMAIN before.datapoints \cap DOMAIN cdf_datapoints :
              \/ cdf_datapoints[x] = before.datapoints[x]
              \/ cdf_datapoints[x].timestamp > before.datapoints[x].timestamp

\* the Update that inserted the value 2.5 for the time 2 was delivered again and
\* inserted nothing
InsertOnlyLaterWitness ==
    /\ CarriesLatestValue /\ redelivered
    /\ CarriedValue = "2.5"
    /\ HadDatapoint /\ LatestTimestamp = GivenTimestamp
    /\ cdf_datapoints[event.subject].value = "2.5"
    /\ inc_pc = "loop"

\* an Update that gives an earlier time than the latest datapoint, delivered after
\* the Update that set it, inserted nothing
OlderUpdateWitness ==
    /\ CarriesLatestValue /\ ~redelivered
    /\ HadDatapoint /\ GivenTimestamp < LatestTimestamp
    /\ ~DatapointInserted
    /\ inc_pc = "loop"

-----------------------------------------------------------------------------
(* Claims on the label definitions of a relatesTo Update, under SpecLabels *)

\* C39: after the handler of an Update of the labels of an existing relationship,
\* every label of the new list has a definition in the Asset Graph, however many of
\* them had none before, and the handler has not raised.
MissingLabelsAllCreated ==
    LabelsUpdateEvent =>
        /\ NewLabels \subseteq cdf_labels
        /\ (NewLabels \cap before.labels = {}) => inc_pc # "raised"

=============================================================================
